---- MODULE Spec2Model ----
(***************************************************************************)
(* aws-infra-copilot: the query tools of src/tools/ as a state machine.    *)
(*                                                                         *)
(* One tool invocation is one action.  The provider (AWS) is an input:     *)
(* every invocation draws, with \E, the responses the provider gives to    *)
(* the calls the tool makes (pages, describe results, per-item sub-call    *)
(* results), each response being either data or a ClientError with a code. *)
(* The action runs the whole handler on these responses and leaves the     *)
(* returned envelope in `result`, the provider calls it issued, in order,  *)
(* in `calls`, and the responses it was given in `world`.                  *)
(*                                                                         *)
(* Time is counted in hours; a timestamp is an integer number of hours.    *)
(***************************************************************************)
EXTENDS Integers, Sequences, FiniteSets, TLC

VARIABLES
    clients,   \* tools/__init__.py _clients: service name -> client handle
    pc,        \* "idle": waiting for an invocation; "returned": a tool ended
    tool,      \* name of the tool that ran last
    world,     \* arguments and provider responses of the last invocation
    result,    \* what the last invocation produced: an envelope or an exception
    calls,     \* provider calls issued by the last invocation, in order
    built,     \* boto3.client constructions of the last invocation, in order
    cached,    \* _clients as the last invocation found it
    frames     \* per thread, the frame of get_client it is in

vars == <<clients, pc, tool, world, result, calls, built, cached, frames>>

-----------------------------------------------------------------------------
(* Bounds of the model *)

\* most items the provider puts on one page of a listing
MaxPageSize == 2
\* most items (users, roles, events, buckets, functions) a listing holds
MaxItems == 2

-----------------------------------------------------------------------------
(* Generic helpers *)

Min(a, b) == IF a < b THEN a ELSE b

Range(s) == {s[i] : i \in 1..Len(s)}

RECURSIVE Flatten(_)
\* concatenation of a sequence of sequences, by halves
Flatten(ss) ==
    IF Len(ss) = 0 THEN <<>>
    ELSE IF Len(ss) = 1 THEN ss[1]
    ELSE Flatten(SubSeq(ss, 1, Len(ss) \div 2)) \o
         Flatten(SubSeq(ss, Len(ss) \div 2 + 1, Len(ss)))

\* sequences over S of length 0..n
SeqsUpTo(S, n) == UNION {[1..k -> S] : k \in 0..n}

-----------------------------------------------------------------------------
(* The provider: responses and failures *)

\* a response the provider gives to one call: data, or a ClientError with a code
Ok(data) == [ok |-> TRUE, code |-> "", data |-> data]
Fail(code) == [ok |-> FALSE, code |-> code, data |-> <<>>]

\* str(e) of a botocore ClientError: the text names the error code
StrErr(code) == <<"An error occurred", code>>

\* one provider call as the tool issued it: operation, argument, response
Call(op, arg, resp) == [op |-> op, arg |-> arg, resp |-> resp]

RECURSIVE PagesOf(_, _)
\* sequence s as the provider serves it with p items a page: the last page
\* may be partial, and an empty listing is one empty page
PagesOf(s, p) ==
    IF Len(s) <= p THEN <<s>>
    ELSE <<SubSeq(s, 1, p)>> \o PagesOf(SubSeq(s, p + 1, Len(s)), p)

\* the plan with its failAt-th call answered by a ClientError (0: none fails)
Inject(plan, failAt, code) ==
    [i \in 1..Len(plan) |->
        IF i = failAt THEN [plan[i] EXCEPT !.resp = Fail(code)] ELSE plan[i]]

RECURSIVE FirstFail(_)
\* index of the first failing call of a plan, 0 when none fails
FirstFail(plan) ==
    IF plan = <<>> THEN 0
    ELSE IF ~Head(plan).resp.ok THEN 1
    ELSE LET r == FirstFail(Tail(plan)) IN IF r = 0 THEN 0 ELSE r + 1

\* try: <the calls of plan, in order>; return success
\* except ClientError as e: return {"error": str(e)}
\* The first failing call raises; nothing after it is issued and everything
\* collected before it is dropped with the locals of the try block.
TryExcept(plan, success) ==
    LET ff == FirstFail(plan) IN
    IF ff = 0
    THEN [env |-> success, calls |-> plan]
    ELSE [env |-> [error |-> StrErr(plan[ff].resp.code)],
          calls |-> SubSeq(plan, 1, ff)]

\* the sizes of page the provider may use
PageSizes == 1..MaxPageSize

-----------------------------------------------------------------------------
(* tools/__init__.py *)

Services == {"iam", "ecs", "s3", "lambda"}

\* boto3.client(service_name): a handle, or an exception when the region or
\* the credentials cannot be resolved
Boto3Client(service, resolves) ==
    IF resolves THEN [raised |-> FALSE, handle |-> <<"client", service>>]
    ELSE [raised |-> TRUE, handle |-> <<>>]

\* one call of boto3.client as the log of constructions keeps it: the region
\* is "default" when no region_name is passed, as in get_client
Constructed(service, region, resolves) ==
    [service |-> service, region |-> region, raised |-> ~resolves]

\* the threads that may run tool invocations side by side
Threads == {"t1", "t2"}

\* the services the threads ask for
RaceServices == {"s3", "iam"}

\* most calls of boto3.client in a run of the threads
MaxBuilt == 3

\* a thread that is not inside get_client
NotInGetClient == [at |-> "out"]

\* def get_client(service_name): a thread enters
EnterGetClient(t) ==
    \E service_name \in RaceServices :
        /\ frames[t].at = "out"
        /\ frames' = [frames EXCEPT ![t] = [at |-> "test", service_name |-> service_name]]
        /\ UNCHANGED <<clients, built>>

\* if service_name not in _clients
TestCache(t) ==
    /\ frames[t].at = "test"
    /\ frames' = [frames EXCEPT ![t].at =
                     IF frames[t].service_name \notin DOMAIN clients
                     THEN "construct" ELSE "return"]
    /\ UNCHANGED <<clients, built>>

\* boto3.client(service_name): a new object, the n-th call returning
\* <<"client", service, n>>, or an exception that leaves get_client
ConstructClient(t) ==
    /\ frames[t].at = "construct"
    /\ Len(built) < MaxBuilt
    /\ \E resolves \in BOOLEAN :
          /\ built' = Append(built, Constructed(frames[t].service_name, "default", resolves))
          /\ frames' = [frames EXCEPT ![t] =
                IF resolves
                THEN [at |-> "store", service_name |-> frames[t].service_name,
                      handle |-> <<"client", frames[t].service_name, Len(built) + 1>>]
                ELSE [at |-> "raised", service_name |-> frames[t].service_name]]
    /\ UNCHANGED clients

\* _clients[service_name] = <the object constructed>
StoreClient(t) ==
    /\ frames[t].at = "store"
    /\ clients' = [s \in DOMAIN clients \cup {frames[t].service_name} |->
                      IF s = frames[t].service_name THEN frames[t].handle ELSE clients[s]]
    /\ frames' = [frames EXCEPT ![t] =
                     [at |-> "return", service_name |-> frames[t].service_name]]
    /\ UNCHANGED built

\* return _clients[service_name]
ReturnClient(t) ==
    /\ frames[t].at = "return"
    /\ frames' = [frames EXCEPT ![t] =
                     [at |-> "done", service_name |-> frames[t].service_name,
                      got |-> clients[frames[t].service_name]]]
    /\ UNCHANGED <<clients, built>>

\* the caller goes on with the handle, or with the exception
LeaveGetClient(t) ==
    /\ frames[t].at \in {"done", "raised"}
    /\ frames' = [frames EXCEPT ![t] = NotInGetClient]
    /\ UNCHANGED <<clients, built>>

\* one step of thread t in get_client
GetClientStep(t) ==
    /\ \/ EnterGetClient(t)
       \/ TestCache(t)
       \/ ConstructClient(t)
       \/ StoreClient(t)
       \/ ReturnClient(t)
       \/ LeaveGetClient(t)
    /\ UNCHANGED <<pc, tool, world, result, calls, cached>>

\* get_client without the membership test: a client is constructed and stored
\* at every call
get_client_uncached(c, service, resolves) ==
    IF resolves
    THEN [raised |-> FALSE,
          clients |-> [t \in DOMAIN c \cup {service} |->
                          IF t = service THEN <<"client", service>> ELSE c[t]],
          built |-> <<Constructed(service, "default", resolves)>>]
    ELSE [raised |-> TRUE, clients |-> c,
          built |-> <<Constructed(service, "default", resolves)>>]

\* get_client that stores an entry before the construction has succeeded
get_client_stores_first(c, service, resolves) ==
    IF service \notin DOMAIN c
    THEN [raised |-> ~resolves,
          clients |-> (service :> <<"client", service>>) @@ c,
          built |-> <<Constructed(service, "default", resolves)>>]
    ELSE [raised |-> FALSE, clients |-> c, built |-> <<>>]

\* get_client(service_name) on cache c
get_client(c, service, resolves) ==
    IF service \notin DOMAIN c
    THEN LET b == Boto3Client(service, resolves) IN
         IF b.raised
         THEN [raised |-> TRUE, clients |-> c,
               built |-> <<Constructed(service, "default", resolves)>>]
         ELSE [raised |-> FALSE, clients |-> (service :> b.handle) @@ c,
               built |-> <<Constructed(service, "default", resolves)>>]
    ELSE [raised |-> FALSE, clients |-> c, built |-> <<>>]

\* what an invocation leaves when an exception escapes the tool function
Raised(exc) == [kind |-> "exception", exc |-> exc]
\* what an invocation leaves when the tool function returns
Returned(env) == [kind |-> "return", env |-> env]

\* the invocation boundary hands the tool's outcome back: the tool named
\* `name` ran on world w and left cache c, outcome res, call log cl and
\* construction log b
Finish(name, w, c, res, cl, b) ==
    /\ pc = "idle"
    /\ pc' = "returned"
    /\ tool' = name
    /\ world' = w
    /\ clients' = c
    /\ result' = res
    /\ calls' = cl
    /\ built' = b
    /\ cached' = clients
    /\ UNCHANGED frames

\* A tool's first statement is  x = get_client(service), outside any try
\* block.  When the client cannot be constructed, the exception leaves the
\* tool before any provider call.
ClientFails(name, service) ==
    /\ pc = "idle"
    /\ service \notin DOMAIN clients
    /\ LET g == get_client(clients, service, FALSE) IN
       /\ g.raised
       /\ Finish(name, <<>>, g.clients, Raised("NoRegionError"), <<>>, g.built)

\* Otherwise the rest of the tool runs on a world w; body is the record
\* [env, calls] it yields there.
Runs(name, service, w, body) ==
    /\ pc = "idle"
    /\ LET g == get_client(clients, service, TRUE) IN
       /\ ~g.raised
       /\ Finish(name, w, g.clients, Returned(body.env), body.calls, g.built)

\* the invocation boundary is ready for the next call
Deliver ==
    /\ pc = "returned"
    /\ pc' = "idle"
    /\ tool' = ""
    /\ world' = <<>>
    /\ result' = <<>>
    /\ calls' = <<>>
    /\ built' = <<>>
    /\ cached' = <<>>
    /\ UNCHANGED <<clients, frames>>

-----------------------------------------------------------------------------
(* tools/iam.py *)

\* the i-th user of the account
UserName(i) == <<"alice", "bob", "carol", "dave">>[i]

\* the user listings the provider may hold: the i-th user is a record of
\* Kinds under the i-th name
UsersFrom(Kinds) ==
    {[i \in 1..Len(s) |-> [UserName |-> UserName(i)] @@ s[i]] :
        s \in SeqsUpTo(Kinds, MaxItems)}

\* the worlds of a tool made of a paginated listing and the sub-calls of its
\* loop body: every listing of Listed, served in pages of every size, with no
\* call failing or with any one call of the plan failing; Extra are the
\* tool's arguments
PagedWorlds(Listed, Extra, Plan(_)) ==
    UNION {UNION {
        LET w0 == [pages |-> PagesOf(items, p), failAt |-> 0] @@ x IN
        {[w0 EXCEPT !.failAt = f] : f \in 0..Len(Plan(w0))} :
        p \in PageSizes, x \in Extra} : items \in Listed}

\* datetime.isoformat(); a text that is no timestamp is written <<text>>
IsoFormat(t) == <<"iso", t>>

\* timedelta.days of (a - b): whole days, rounded towards minus infinity
HoursPerDay == 24
TimedeltaDays(a, b) == (a - b) \div HoursPerDay

\* the instant datetime.now(timezone.utc) returns, in hours
Now == 2400

AccessDenied == "AccessDenied"

\* the listing calls of a paginator over pages, each followed by the
\* sub-calls SubCalls(item) the loop body makes for every item of the page
PageLoop(op, arg, pages, SubCalls(_)) ==
    Flatten([i \in 1..Len(pages) |->
        <<Call(op, arg, Ok(pages[i]))>> \o
        Flatten([j \in 1..Len(pages[i]) |-> SubCalls(pages[i][j])])])

NoSubCalls(item) == <<>>

\* ---- list_iam_users

\* a world of list_iam_users: [pages, failAt]
ShapeUser(user) ==
    [username |-> user.UserName,
     user_id |-> user.UserId,
     created |-> IsoFormat(user.CreateDate),
     password_last_used |->
        IF "PasswordLastUsed" \in DOMAIN user
        THEN IsoFormat(user.PasswordLastUsed) ELSE <<"Never">>]

ListUsersPlan(w) ==
    Inject(PageLoop("list_users", <<>>, w.pages, NoSubCalls), w.failAt, AccessDenied)

\* list_users called once, without a paginator: the first page alone
list_iam_users_first_page(w) ==
    TryExcept(Inject(<<Call("list_users", <<>>, Ok(w.pages[1]))>>, w.failAt, AccessDenied),
              [user_count |-> Len(w.pages[1]),
               users |-> [i \in 1..Len(w.pages[1]) |-> ShapeUser(w.pages[1][i])]])

list_iam_users(w) ==
    LET items == Flatten(w.pages)
        users == [i \in 1..Len(items) |-> ShapeUser(items[i])]
    IN  TryExcept(ListUsersPlan(w), [user_count |-> Len(users), users |-> users])

\* ---- list_users_with_stale_credentials

\* a world: [days, pages, failAt]; a user of a page is
\* [UserName, keys], keys being the AccessKeyMetadata list_access_keys gives
StaleKeyCalls(user) == <<Call("list_access_keys", user.UserName, Ok(user.keys))>>

StalePlan(w) ==
    Inject(PageLoop("list_users", <<>>, w.pages, StaleKeyCalls), w.failAt, AccessDenied)

\* the comparison with the threshold itself counted as stale
IsStaleFromThreshold(key, days) == TimedeltaDays(Now, key.CreateDate) >= days

\* if key_age > days
IsStale(key, days) == TimedeltaDays(Now, key.CreateDate) > days

StaleEntry(username, key) ==
    [username |-> username,
     access_key_id |-> key.AccessKeyId,
     key_age_days |-> TimedeltaDays(Now, key.CreateDate),
     status |-> key.Status,
     created |-> IsoFormat(key.CreateDate)]

StaleOfUser(user, days) ==
    LET stale == SelectSeq(user.keys, LAMBDA k : IsStale(k, days))
    IN  [i \in 1..Len(stale) |-> StaleEntry(user.UserName, stale[i])]

list_users_with_stale_credentials(w) ==
    LET items == Flatten(w.pages)
        stale_users == Flatten([i \in 1..Len(items) |-> StaleOfUser(items[i], w.days)])
    IN  TryExcept(StalePlan(w),
                  [threshold_days |-> w.days,
                   stale_credential_count |-> Len(stale_users),
                   users |-> stale_users])

\* ---- list_users_with_admin_access

admin_policy_arn == "arn:aws:iam::aws:policy/AdministratorAccess"
ReadOnlyArn == "arn:aws:iam::aws:policy/ReadOnlyAccess"

\* list_attached_group_policies(GroupName): the AttachedPolicies of a group
GroupPolicies(group) ==
    CASE group = "admins" -> <<[PolicyArn |-> admin_policy_arn]>>
      [] group = "ops" -> <<[PolicyArn |-> ReadOnlyArn], [PolicyArn |-> admin_policy_arn]>>
      [] OTHER -> <<[PolicyArn |-> ReadOnlyArn]>>

\* a world: [pages, failAt]; a user of a page is [UserName, attached, groups]:
\* the AttachedPolicies of list_attached_user_policies and the Groups of
\* list_groups_for_user
AdminCalls(user) ==
    <<Call("list_attached_user_policies", user.UserName, Ok(user.attached)),
      Call("list_groups_for_user", user.UserName, Ok(user.groups))>> \o
    [g \in 1..Len(user.groups) |->
        Call("list_attached_group_policies", user.groups[g].GroupName,
             Ok(GroupPolicies(user.groups[g].GroupName)))]

AdminPlan(w) ==
    Inject(PageLoop("list_users", <<>>, w.pages, AdminCalls), w.failAt, AccessDenied)

IsAdminPolicy(policy) == policy.PolicyArn = admin_policy_arn

\* admin_source holding the first source found only
AdminSourceFirstFound(user) ==
    LET direct == SelectSeq(user.attached, IsAdminPolicy)
        OfGroup(group) ==
            LET hits == SelectSeq(GroupPolicies(group.GroupName), IsAdminPolicy)
            IN  [i \in 1..Len(hits) |-> <<"group", group.GroupName>>]
        all == [i \in 1..Len(direct) |-> <<"direct_attachment">>] \o
               Flatten([g \in 1..Len(user.groups) |-> OfGroup(user.groups[g])])
    IN  SubSeq(all, 1, Min(1, Len(all)))

\* admin_source after the direct policies and the groups of the user are read
AdminSource(user) ==
    LET direct == SelectSeq(user.attached, IsAdminPolicy)
        OfGroup(group) ==
            LET hits == SelectSeq(GroupPolicies(group.GroupName), IsAdminPolicy)
            IN  [i \in 1..Len(hits) |-> <<"group", group.GroupName>>]
    IN  [i \in 1..Len(direct) |-> <<"direct_attachment">>] \o
        Flatten([g \in 1..Len(user.groups) |-> OfGroup(user.groups[g])])

\* has_admin after both loops: set where admin_source is appended to
HasAdmin(user) == AdminSource(user) # <<>>

list_users_with_admin_access(w) ==
    LET items == Flatten(w.pages)
        admins == SelectSeq(items, HasAdmin)
        admin_users == [i \in 1..Len(admins) |->
                           [username |-> admins[i].UserName,
                            admin_source |-> AdminSource(admins[i])]]
    IN  TryExcept(AdminPlan(w),
                  [admin_user_count |-> Len(admin_users), users |-> admin_users])

\* ---- list_iam_roles

\* a world: [path_prefix, pages, failAt]
ShapeRole(role) ==
    [role_name |-> role.RoleName,
     role_id |-> role.RoleId,
     path |-> role.Path,
     created |-> IsoFormat(role.CreateDate),
     description |-> IF "Description" \in DOMAIN role THEN role.Description ELSE ""]

ListRolesPlan(w) ==
    Inject(PageLoop("list_roles", w.path_prefix, w.pages, NoSubCalls),
           w.failAt, AccessDenied)

list_iam_roles(w) ==
    LET items == Flatten(w.pages)
        roles == [i \in 1..Len(items) |-> ShapeRole(items[i])]
    IN  TryExcept(ListRolesPlan(w), [role_count |-> Len(roles), roles |-> roles])

\* ---- get_role_trust_policy

\* a world: [role_name, role, failAt], role being the Role get_role returns
GetRolePlan(w) ==
    Inject(<<Call("get_role", w.role_name, Ok(w.role))>>, w.failAt, "NoSuchEntity")

get_role_trust_policy(w) ==
    TryExcept(GetRolePlan(w),
              [role_name |-> w.role.RoleName,
               trust_policy |-> w.role.AssumeRolePolicyDocument])

\* ---- list_access_keys

\* Python's dict.get(key, default)
Get(d, key, default) == IF key \in DOMAIN d THEN d[key] ELSE default

\* Python's truth value of an optional string argument
Truthy(x) == x # "None" /\ x # ""

\* a world: [username, pages, failAt]; a user of a page is [UserName, keys] and
\* a key carries, as last_used, the response of get_access_key_last_used
\* users: the one named, or every user of the listing
AccessKeyUsers(w) ==
    IF Truthy(w.username)
    THEN SelectSeq(Flatten(w.pages), LAMBDA u : u.UserName = w.username)
    ELSE Flatten(w.pages)

KeyCalls(user) ==
    <<Call("list_access_keys", user.UserName, Ok(user.keys))>> \o
    [k \in 1..Len(user.keys) |->
        Call("get_access_key_last_used", user.keys[k].AccessKeyId,
             Ok(user.keys[k].last_used))]

AccessKeysPlan(w) ==
    LET users == AccessKeyUsers(w) IN
    Inject((IF Truthy(w.username) THEN <<>>
            ELSE PageLoop("list_users", <<>>, w.pages, NoSubCalls)) \o
           Flatten([u \in 1..Len(users) |-> KeyCalls(users[u])]),
           w.failAt, AccessDenied)

ShapeKey(uname, key) ==
    LET last_used == Get(key.last_used, "AccessKeyLastUsed", <<>>) IN
    [username |-> uname,
     access_key_id |-> key.AccessKeyId,
     status |-> key.Status,
     created |-> IsoFormat(key.CreateDate),
     age_days |-> TimedeltaDays(Now, key.CreateDate),
     last_used |-> IF "LastUsedDate" \in DOMAIN last_used
                   THEN IsoFormat(last_used.LastUsedDate) ELSE <<"Never">>,
     last_used_service |-> Get(last_used, "ServiceName", "N/A")]

list_access_keys(w) ==
    LET users == AccessKeyUsers(w)
        all_keys == Flatten([u \in 1..Len(users) |->
                        [k \in 1..Len(users[u].keys) |->
                            ShapeKey(users[u].UserName, users[u].keys[k])]])
    IN  TryExcept(AccessKeysPlan(w),
                  [key_count |-> Len(all_keys), access_keys |-> all_keys])

\* ---- the worlds of the IAM tools

\* the users the account may hold, as list_users returns them
ListedUsers ==
    UsersFrom({[UserId |-> "AID", CreateDate |-> 100],
               [UserId |-> "AID", CreateDate |-> 100, PasswordLastUsed |-> 2000]})

\* the access keys a user may hold, by creation time: aged 91 days, 90 days,
\* 90 days and 23 hours, 89 days
KeyDateLists == {<<>>, <<216>>, <<240>>, <<217, 264>>}

KeysOf(dates) ==
    [j \in 1..Len(dates) |->
        [AccessKeyId |-> <<"AKIA", j>>,
         CreateDate |-> dates[j],
         Status |-> IF j = 1 THEN "Active" ELSE "Inactive"]]

StaleUsers == UsersFrom({[keys |-> KeysOf(d)] : d \in KeyDateLists})

StaleDays == {89, 90}

\* the direct policies and the groups a user may have
AttachedLists == {<<[PolicyArn |-> ReadOnlyArn]>>,
                  <<[PolicyArn |-> ReadOnlyArn], [PolicyArn |-> admin_policy_arn]>>}
GroupLists == {<<[GroupName |-> "devs"]>>,
               <<[GroupName |-> "admins"], [GroupName |-> "devs"], [GroupName |-> "ops"]>>}

AdminUsers ==
    UsersFrom({[attached |-> a, groups |-> g] : a \in AttachedLists, g \in GroupLists})

\* the roles of the account, as list_roles returns them
ListedRoles ==
    SeqsUpTo({[RoleName |-> "deploy", RoleId |-> "AROA", Path |-> "/", CreateDate |-> 50],
              [RoleName |-> "audit", RoleId |-> "AROB", Path |-> "/svc/", CreateDate |-> 60,
               Description |-> "auditors"]}, MaxItems)

\* the responses of get_access_key_last_used
LastUsedKinds ==
    {<<>>,
     [AccessKeyLastUsed |-> [ServiceName |-> "N/A", Region |-> "N/A"]],
     [AccessKeyLastUsed |-> [LastUsedDate |-> 2300, ServiceName |-> "s3", Region |-> "us-east-1"]]}

KeyedUsers ==
    UsersFrom({[keys |-> <<>>]} \cup
              {[keys |-> <<[AccessKeyId |-> "AKIA1", CreateDate |-> 217, Status |-> "Active",
                            last_used |-> l]>>] : l \in LastUsedKinds})

\* a listing whose last page is partial when served two a page
ThreeUsers ==
    [i \in 1..3 |-> [UserName |-> UserName(i), UserId |-> "AID", CreateDate |-> 100 + i]]

ListUsersWorlds == PagedWorlds(ListedUsers \cup {ThreeUsers}, {<<>>}, ListUsersPlan)

StaleWorlds == PagedWorlds(StaleUsers, {[days |-> d] : d \in StaleDays}, StalePlan)

AdminWorlds == PagedWorlds(AdminUsers, {<<>>}, AdminPlan)

ListRolesWorlds ==
    PagedWorlds(ListedRoles, {[path_prefix |-> x] : x \in {"/", "/svc/"}}, ListRolesPlan)

GetRoleWorlds ==
    {[role_name |-> "deploy", failAt |-> f,
      role |-> [RoleName |-> "deploy", AssumeRolePolicyDocument |-> d]] :
        f \in {0, 1}, d \in {"ec2.amazonaws.com", "lambda.amazonaws.com"}}

\* a user that is named exists
AccessKeysWorlds ==
    {w \in PagedWorlds(KeyedUsers, {[username |-> x] : x \in {"None", UserName(1)}},
                       AccessKeysPlan) :
        Truthy(w.username) => w.pages # <<<<>>>>}

ListIamUsers ==
    /\ pc = "idle"
    /\ \/ ClientFails("list_iam_users", "iam")
       \/ \E w \in ListUsersWorlds :
             Runs("list_iam_users", "iam", w, list_iam_users(w))

ListUsersWithStaleCredentials ==
    /\ pc = "idle"
    /\ \/ ClientFails("list_users_with_stale_credentials", "iam")
       \/ \E w \in StaleWorlds :
             Runs("list_users_with_stale_credentials", "iam", w, list_users_with_stale_credentials(w))

ListUsersWithAdminAccess ==
    /\ pc = "idle"
    /\ \/ ClientFails("list_users_with_admin_access", "iam")
       \/ \E w \in AdminWorlds :
             Runs("list_users_with_admin_access", "iam", w, list_users_with_admin_access(w))

ListIamRoles ==
    /\ pc = "idle"
    /\ \/ ClientFails("list_iam_roles", "iam")
       \/ \E w \in ListRolesWorlds :
             Runs("list_iam_roles", "iam", w, list_iam_roles(w))

GetRoleTrustPolicy ==
    /\ pc = "idle"
    /\ \/ ClientFails("get_role_trust_policy", "iam")
       \/ \E w \in GetRoleWorlds :
             Runs("get_role_trust_policy", "iam", w, get_role_trust_policy(w))

ListAccessKeys ==
    /\ pc = "idle"
    /\ \/ ClientFails("list_access_keys", "iam")
       \/ \E w \in AccessKeysWorlds :
             Runs("list_access_keys", "iam", w, list_access_keys(w))

-----------------------------------------------------------------------------
(* tools/ecs.py *)

\* most describe calls a listing is cut into
MaxChunks == 2

\* the batch sizes of describe_services and describe_tasks
ServiceBatch == 10
TaskBatch == 100

\* a text with "/" in it is the sequence of its parts: text.split("/")[-1]
LastPart(text) == text[Len(text)]

\* every identifier in one describe call, as list_ecs_clusters asks
OneBatch(arns, i, B) == IF i >= Len(arns) THEN <<>> ELSE <<arns>>

RECURSIVE Batches(_, _, _)
\* for i in range(i, len(arns), B): batch = arns[i : i + B]
Batches(arns, i, B) ==
    IF i >= Len(arns) THEN <<>>
    ELSE <<SubSeq(arns, i + 1, Min(i + B, Len(arns)))>> \o Batches(arns, i + B, B)

\* what a describe call answers for a batch: one record, Describe(arn), for
\* every identifier of the batch that still exists, in the order asked
Described(batch, gone, Describe(_)) ==
    LET found == SelectSeq(batch, LAMBDA arn : arn \notin gone)
    IN  [i \in 1..Len(found) |-> Describe(found[i])]

\* ---- list_ecs_clusters

\* a world: [pages, gone, failAt], the pages holding cluster ARNs
Cluster(arn) ==
    [clusterName |-> arn, status |-> "ACTIVE", runningTasksCount |-> 3,
     pendingTasksCount |-> 0, activeServicesCount |-> 2,
     registeredContainerInstancesCount |-> 1]

ShapeCluster(cluster) ==
    [name |-> cluster.clusterName,
     status |-> cluster.status,
     running_tasks |-> cluster.runningTasksCount,
     pending_tasks |-> cluster.pendingTasksCount,
     active_services |-> cluster.activeServicesCount,
     registered_instances |-> cluster.registeredContainerInstancesCount]

ClustersPlan(w) ==
    LET cluster_arns == Flatten(w.pages) IN
    Inject(PageLoop("list_clusters", <<>>, w.pages, NoSubCalls) \o
           (IF cluster_arns = <<>> THEN <<>>
            ELSE <<Call("describe_clusters", cluster_arns,
                        Ok(Described(cluster_arns, w.gone, Cluster)))>>),
           w.failAt, AccessDenied)

list_ecs_clusters(w) ==
    LET cluster_arns == Flatten(w.pages)
        response == Described(cluster_arns, w.gone, Cluster)
        clusters == [i \in 1..Len(response) |-> ShapeCluster(response[i])]
    IN  TryExcept(ClustersPlan(w),
                  IF cluster_arns = <<>>
                  THEN [cluster_count |-> 0, clusters |-> <<>>]
                  ELSE [cluster_count |-> Len(clusters), clusters |-> clusters])

\* ---- list_ecs_services

\* a world: [cluster_name, pages, gone, failAt], the pages holding service
\* ARNs; a service without launchType runs on EC2
Service(arn) ==
    IF arn % 2 = 0
    THEN [serviceName |-> arn, status |-> "ACTIVE", desiredCount |-> 2,
          runningCount |-> 2, pendingCount |-> 0, launchType |-> "FARGATE",
          taskDefinition |-> <<"arn:aws:ecs:task-definition", "web:3">>]
    ELSE [serviceName |-> arn, status |-> "DRAINING", desiredCount |-> 1,
          runningCount |-> 0, pendingCount |-> 1,
          taskDefinition |-> <<"arn:aws:ecs:task-definition", "batch:7">>]

ShapeService(service) ==
    [name |-> service.serviceName,
     status |-> service.status,
     desired_count |-> service.desiredCount,
     running_count |-> service.runningCount,
     pending_count |-> service.pendingCount,
     launch_type |-> Get(service, "launchType", "EC2"),
     task_definition |-> LastPart(service.taskDefinition)]

\* the describe calls of a batched detail fetch, one per batch
DescribeCalls(op, arns, B, gone, Describe(_)) ==
    LET batches == Batches(arns, 0, B) IN
    [c \in 1..Len(batches) |->
        Call(op, batches[c], Ok(Described(batches[c], gone, Describe)))]

ServicesPlan(w) ==
    Inject(PageLoop("list_services", w.cluster_name, w.pages, NoSubCalls) \o
           DescribeCalls("describe_services", Flatten(w.pages), ServiceBatch,
                         w.gone, Service),
           w.failAt, AccessDenied)

\* the records of all describe calls, shaped, in the order of the calls
DescribedAll(plan, op, Shape(_)) ==
    LET answers == SelectSeq(plan, LAMBDA c : c.op = op) IN
    Flatten([c \in 1..Len(answers) |->
        [i \in 1..Len(answers[c].resp.data) |-> Shape(answers[c].resp.data[i])]])

\* the services described before a failing call returned beside the error
list_ecs_services_partial(w) ==
    LET plan == ServicesPlan(w)
        ff == FirstFail(plan)
        issued == IF ff = 0 THEN plan ELSE SubSeq(plan, 1, ff)
        services == DescribedAll(SelectSeq(issued, LAMBDA c : c.resp.ok),
                                 "describe_services", ShapeService)
        partial == [cluster |-> w.cluster_name, service_count |-> Len(services),
                    services |-> services]
    IN  [env |-> IF ff = 0 THEN partial
                 ELSE [error |-> StrErr(plan[ff].resp.code)] @@ partial,
         calls |-> issued]

list_ecs_services(w) ==
    LET service_arns == Flatten(w.pages)
        services == DescribedAll(ServicesPlan(w), "describe_services", ShapeService)
    IN  TryExcept(ServicesPlan(w),
                  IF service_arns = <<>>
                  THEN [cluster |-> w.cluster_name, service_count |-> 0,
                        services |-> <<>>]
                  ELSE [cluster |-> w.cluster_name, service_count |-> Len(services),
                        services |-> services])

\* ---- list_ecs_tasks

\* a world: [cluster_name, service_name, pages, gone, failAt], the pages
\* holding task ARNs; a task that has not started lacks the optional fields
Task(arn) ==
    IF arn % 2 = 0
    THEN [taskArn |-> <<"arn:aws:ecs:task", "prod", arn>>,
          taskDefinitionArn |-> <<"arn:aws:ecs:task-definition", "web:3">>,
          lastStatus |-> "RUNNING", healthStatus |-> "HEALTHY",
          launchType |-> "FARGATE", cpu |-> "256", memory |-> "512",
          startedAt |-> 2000]
    ELSE [taskArn |-> <<"arn:aws:ecs:task", "prod", arn>>,
          taskDefinitionArn |-> <<"arn:aws:ecs:task-definition", "batch:7">>,
          lastStatus |-> "PENDING"]

ShapeTask(task) ==
    [task_id |-> LastPart(task.taskArn),
     task_definition |-> LastPart(task.taskDefinitionArn),
     status |-> task.lastStatus,
     health_status |-> Get(task, "healthStatus", "UNKNOWN"),
     launch_type |-> Get(task, "launchType", "EC2"),
     cpu |-> Get(task, "cpu", "N/A"),
     memory |-> Get(task, "memory", "N/A"),
     started_at |-> IF "startedAt" \in DOMAIN task
                    THEN IsoFormat(task.startedAt) ELSE <<"Not started">>]

\* list_params: serviceName is passed only when service_name is given
ListTasksParams(w) ==
    IF Truthy(w.service_name)
    THEN [cluster |-> w.cluster_name, desiredStatus |-> "RUNNING",
          serviceName |-> w.service_name]
    ELSE [cluster |-> w.cluster_name, desiredStatus |-> "RUNNING"]

TasksPlan(w) ==
    Inject(PageLoop("list_tasks", ListTasksParams(w), w.pages, NoSubCalls) \o
           DescribeCalls("describe_tasks", Flatten(w.pages), TaskBatch, w.gone, Task),
           w.failAt, AccessDenied)

list_ecs_tasks(w) ==
    LET task_arns == Flatten(w.pages)
        tasks == DescribedAll(TasksPlan(w), "describe_tasks", ShapeTask)
    IN  TryExcept(TasksPlan(w),
                  IF task_arns = <<>>
                  THEN [cluster |-> w.cluster_name, task_count |-> 0, tasks |-> <<>>]
                  ELSE [cluster |-> w.cluster_name, task_count |-> Len(tasks),
                        tasks |-> tasks])

\* ---- get_ecs_service_status

\* Python's seq[:n]
Take(seq, n) == SubSeq(seq, 1, Min(n, Len(seq)))

\* a world: [cluster_name, service_name, services, failAt], services being
\* the list describe_services answers for the one name
ServiceStatusPlan(w) ==
    Inject(<<Call("describe_services", <<w.service_name>>, Ok(w.services))>>,
           w.failAt, AccessDenied)

ShapeDeployment(dep) ==
    [id |-> dep.id,
     status |-> dep.status,
     desired_count |-> dep.desiredCount,
     running_count |-> dep.runningCount,
     pending_count |-> dep.pendingCount,
     created |-> IsoFormat(dep.createdAt),
     task_definition |-> LastPart(dep.taskDefinition)]

ShapeEvent(event) ==
    [timestamp |-> IsoFormat(event.createdAt), message |-> event.message]

get_ecs_service_status(w) ==
    LET service == w.services[1]
        deps == Get(service, "deployments", <<>>)
        evs == Take(Get(service, "events", <<>>), 5)
    IN  TryExcept(ServiceStatusPlan(w),
            IF w.services = <<>>
            THEN [error |-> <<"Service not found in cluster", w.service_name,
                              w.cluster_name>>]
            ELSE [cluster |-> w.cluster_name,
                  service_name |-> service.serviceName,
                  status |-> service.status,
                  desired_count |-> service.desiredCount,
                  running_count |-> service.runningCount,
                  pending_count |-> service.pendingCount,
                  launch_type |-> Get(service, "launchType", "EC2"),
                  task_definition |-> LastPart(service.taskDefinition),
                  deployments |-> [i \in 1..Len(deps) |-> ShapeDeployment(deps[i])],
                  recent_events |-> [i \in 1..Len(evs) |-> ShapeEvent(evs[i])]])

\* ---- describe_task_definition

\* a world: [task_definition, taskDefinition, failAt]
TaskDefinitionPlan(w) ==
    Inject(<<Call("describe_task_definition", w.task_definition, Ok(w.taskDefinition))>>,
           w.failAt, AccessDenied)

ShapeContainer(container) ==
    [name |-> container.name,
     image |-> container.image,
     cpu |-> Get(container, "cpu", "N/A"),
     memory |-> Get(container, "memory", "N/A"),
     memory_reservation |-> Get(container, "memoryReservation", "N/A"),
     essential |-> Get(container, "essential", TRUE),
     port_mappings |-> Get(container, "portMappings", <<>>)]

describe_task_definition(w) ==
    LET task_def == w.taskDefinition
        defs == task_def.containerDefinitions
    IN  TryExcept(TaskDefinitionPlan(w),
            [family |-> task_def.family,
             revision |-> task_def.revision,
             status |-> task_def.status,
             task_role |-> LastPart(Get(task_def, "taskRoleArn", <<"None">>)),
             execution_role |-> LastPart(Get(task_def, "executionRoleArn", <<"None">>)),
             network_mode |-> Get(task_def, "networkMode", "bridge"),
             cpu |-> Get(task_def, "cpu", "N/A"),
             memory |-> Get(task_def, "memory", "N/A"),
             containers |-> [i \in 1..Len(defs) |-> ShapeContainer(defs[i])]])

\* ---- list_fargate_retirements

SubscriptionRequired == "SubscriptionRequiredException"

\* an event type code is the sequence of its words, the "_" between them
\* left out; str.lower() and str.title() of a word
Lower(word) ==
    CASE word \in {"FARGATE", "Fargate"} -> "fargate"
      [] word \in {"TASK", "Task"} -> "task"
      [] word \in {"RETIREMENT", "Retirement"} -> "retirement"
      [] word \in {"ECS", "Ecs"} -> "ecs"
      [] word \in {"MAINTENANCE", "Maintenance"} -> "maintenance"
      [] OTHER -> word

Title(word) ==
    CASE Lower(word) = "fargate" -> "Fargate"
      [] Lower(word) = "task" -> "Task"
      [] Lower(word) = "retirement" -> "Retirement"
      [] Lower(word) = "ecs" -> "Ecs"
      [] Lower(word) = "maintenance" -> "Maintenance"
      [] OTHER -> word

\* "fargate" in code.lower()
MentionsFargate(code) == \E i \in 1..Len(code) : Lower(code[i]) = "fargate"

\* "/task/" in value: a part "task" with a "/" on both sides
HasTaskPart(value) == \E i \in 2..(Len(value) - 1) : value[i] = "task"

\* event_start and event_start <= end_time
InWindow(event, end_time) ==
    "startTime" \in DOMAIN event /\ event.startTime <= end_time

Retirement(event, entity) ==
    [task_arn |-> Get(entity, "entityValue", <<"">>),
     event_type |-> Get(event, "eventTypeCode", <<"None">>),
     status |-> Get(entity, "statusCode", "None"),
     scheduled_start |-> IF "startTime" \in DOMAIN event
                         THEN IsoFormat(event.startTime) ELSE <<"None">>,
     scheduled_end |-> IF "endTime" \in DOMAIN event
                       THEN IsoFormat(event.endTime) ELSE <<"None">>,
     description |-> LET code == Get(event, "eventTypeCode", <<>>)
                     IN  [i \in 1..Len(code) |-> Title(code[i])]]

\* the retirements one event adds; a failing describe_affected_entities is
\* caught inside the loop and the loop goes on (continue)
RetirementsOf(event) ==
    IF ~event.affected.ok THEN <<>>
    ELSE LET entities == Get(event.affected.data, "entities", <<>>)
             kept == SelectSeq(entities, LAMBDA entity :
                        \/ HasTaskPart(Get(entity, "entityValue", <<"">>))
                        \/ MentionsFargate(Get(event, "eventTypeCode", <<>>)))
         IN  [i \in 1..Len(kept) |-> Retirement(event, kept[i])]

\* arn_parts[1] if len(arn_parts) > 1 else "unknown"
ClusterOf(ret) == IF Len(ret.task_arn) > 1 THEN ret.task_arn[2] ELSE "unknown"

ByCluster(retirements) ==
    [cluster \in {ClusterOf(retirements[i]) : i \in 1..Len(retirements)} |->
        SelectSeq(retirements, LAMBDA ret : ClusterOf(ret) = cluster)]

event_filter ==
    [services |-> <<"ECS">>,
     eventTypeCategories |-> <<"scheduledChange">>,
     eventStatusCodes |-> <<"open", "upcoming">>]

\* the same envelope with an empty result beside the error
SubscriptionErrorWithResults ==
    [error |-> <<"AWS Health API requires Business or Enterprise support plan">>,
     suggestion |-> "Upgrade your AWS support plan or check the AWS Health Dashboard in the console manually",
     retirement_count |-> 0,
     retirements |-> <<>>]

\* the envelope of an account whose support plan lacks the Health API
SubscriptionError ==
    [error |-> <<"AWS Health API requires Business or Enterprise support plan">>,
     suggestion |-> "Upgrade your AWS support plan or check the AWS Health Dashboard in the console manually"]

\* a world: [days, resolves, pages, failAt, code]: the pages hold events, an
\* event carrying as `affected` the response of describe_affected_entities
\* for it; the failAt-th describe_events page fails with code
list_fargate_retirements(w) ==
    LET health == Boto3Client("health", w.resolves)
        end_time == Now + w.days * HoursPerDay
        paging == Inject(PageLoop("describe_events", event_filter, w.pages, NoSubCalls),
                         w.failAt, w.code)
        ff == FirstFail(paging)
        events == SelectSeq(Flatten(w.pages), LAMBDA e : InWindow(e, end_time))
        details == [i \in 1..Len(events) |->
                       Call("describe_affected_entities", events[i].arn, events[i].affected)]
        retirements == Flatten([i \in 1..Len(events) |-> RetirementsOf(events[i])])
    IN  IF health.raised
        THEN [env |-> [error |-> <<"Failed to create Health client", "NoRegionError">>],
              calls |-> <<>>]
        ELSE IF ff # 0
        THEN [env |-> IF paging[ff].resp.code = SubscriptionRequired
                      THEN SubscriptionError
                      ELSE [error |-> StrErr(paging[ff].resp.code)],
              calls |-> SubSeq(paging, 1, ff)]
        ELSE IF events = <<>>
        THEN [env |-> [days_checked |-> w.days,
                       retirement_count |-> 0,
                       message |-> "No Fargate task retirements scheduled",
                       retirements |-> <<>>],
              calls |-> paging]
        ELSE [env |-> [days_checked |-> w.days,
                       retirement_count |-> Len(retirements),
                       retirements_by_cluster |-> ByCluster(retirements),
                       retirements |-> retirements],
              calls |-> paging \o details]

\* ---- the worlds of the listing tools of ECS

\* identifiers 1..n in listing order
Arns(n) == [i \in 1..n |-> i]

\* the lengths of listing about the batch size B: up to MaxChunks full
\* batches, one identifier less and one or two more
ListedCounts(B) ==
    {n \in {k * B + d : k \in 0..MaxChunks, d \in {-1, 0, 1, 2}} : n >= 0}

\* the worlds of a listing followed by a batched describe
BatchedWorlds(B, Extra, Plan(_)) ==
    UNION {UNION {
        LET w0 == [pages |-> PagesOf(Arns(n), p), gone |-> g, failAt |-> 0] @@ x IN
        {[w0 EXCEPT !.failAt = f] : f \in 0..Len(Plan(w0))} :
        p \in {B, B + 5}, g \in {{}, {2}}, x \in Extra} : n \in ListedCounts(B)}

\* an account with one cluster more than the largest batch of the module
ManyClusters ==
    [pages |-> PagesOf(Arns(TaskBatch + 1), TaskBatch), gone |-> {}, failAt |-> 0]

ClustersWorlds ==
    {ManyClusters} \cup
    UNION {UNION {
        LET w0 == [pages |-> PagesOf(Arns(n), p), gone |-> g, failAt |-> 0] IN
        {[w0 EXCEPT !.failAt = f] : f \in 0..Len(ClustersPlan(w0))} :
        p \in PageSizes, g \in {{}, {2}}} : n \in 0..(MaxChunks + 1)}

ServicesWorlds == BatchedWorlds(ServiceBatch, {[cluster_name |-> "prod"]}, ServicesPlan)

TasksWorlds ==
    BatchedWorlds(TaskBatch,
                  {[cluster_name |-> "prod", service_name |-> x] : x \in {"None", "web"}},
                  TasksPlan)

ServiceDetails ==
    {[serviceName |-> "web", status |-> "ACTIVE", desiredCount |-> 1,
      runningCount |-> 1, pendingCount |-> 0,
      taskDefinition |-> <<"arn:aws:ecs:task-definition", "web:3">>],
     [serviceName |-> "web", status |-> "ACTIVE", desiredCount |-> 2,
      runningCount |-> 1, pendingCount |-> 1, launchType |-> "FARGATE",
      taskDefinition |-> <<"arn:aws:ecs:task-definition", "web:4">>,
      deployments |-> <<[id |-> "ecs-svc/1", status |-> "PRIMARY", desiredCount |-> 2,
                         runningCount |-> 1, pendingCount |-> 1, createdAt |-> 2390,
                         taskDefinition |-> <<"arn:aws:ecs:task-definition", "web:4">>]>>,
      events |-> [i \in 1..6 |-> [createdAt |-> 2400 - i, message |-> "steady state"]]]}

ServiceStatusWorlds ==
    {[cluster_name |-> "prod", service_name |-> "web", services |-> sv, failAt |-> f] :
        sv \in {<<>>} \cup {<<d>> : d \in ServiceDetails}, f \in {0, 1}}

TaskDefinitions ==
    {[family |-> "web", revision |-> 3, status |-> "ACTIVE",
      containerDefinitions |-> <<[name |-> "app", image |-> "nginx:1"]>>],
     [family |-> "web", revision |-> 4, status |-> "ACTIVE",
      taskRoleArn |-> <<"arn:aws:iam::123:role", "web-task">>,
      executionRoleArn |-> <<"arn:aws:iam::123:role", "service-role", "exec">>,
      networkMode |-> "awsvpc", cpu |-> "256", memory |-> "512",
      containerDefinitions |->
        <<[name |-> "app", image |-> "nginx:2", cpu |-> "128", memory |-> "256",
           memoryReservation |-> "128", essential |-> FALSE,
           portMappings |-> <<[containerPort |-> 80]>>],
          [name |-> "sidecar", image |-> "envoy:1"]>>]}

TaskDefinitionWorlds ==
    {[task_definition |-> "web", taskDefinition |-> td, failAt |-> f] :
        td \in TaskDefinitions, f \in {0, 1}}

\* the entities an event may affect
TaskEntities ==
    [entities |->
        <<[entityValue |-> <<"arn:aws:ecs:us-east-1:123:task", "prod", "t1">>,
           statusCode |-> "PENDING"],
          [entityValue |-> <<"arn:aws:ecs:us-east-1:123:task", "staging", "t2">>]>>]
MixedEntities ==
    [entities |->
        <<[entityValue |-> <<"ecs", "task", "t9">>, statusCode |-> "PENDING"],
          [entityValue |-> <<"arn:aws:ecs:us-east-1:123:service", "prod", "web">>,
           statusCode |-> "IMPAIRED"],
          [statusCode |-> "UNKNOWN"]>>]

FargateCode == <<"AWS", "ECS", "FARGATE", "TASK", "RETIREMENT">>
OtherCode == <<"AWS", "ECS", "MAINTENANCE">>

\* the events describe_events may list: starting at the end of a one-day
\* window, one hour after it, before now, and without a start time
EventKinds ==
    {[startTime |-> 2424, endTime |-> 2448, eventTypeCode |-> FargateCode,
      affected |-> Ok(TaskEntities)],
     [startTime |-> 2425, eventTypeCode |-> OtherCode, affected |-> Ok(MixedEntities)],
     [startTime |-> 2376, affected |-> Ok(MixedEntities)],
     [eventTypeCode |-> FargateCode, affected |-> Ok(TaskEntities)],
     [startTime |-> 2424, eventTypeCode |-> FargateCode, affected |-> Fail(AccessDenied)],
     [startTime |-> 2424, eventTypeCode |-> FargateCode,
      affected |-> Fail(SubscriptionRequired)]}

ListedEvents ==
    {[i \in 1..Len(s) |-> [arn |-> <<"arn:aws:health:event", i>>] @@ s[i]] :
        s \in SeqsUpTo(EventKinds, MaxItems)}

FargateWorlds ==
    {[days |-> 1, resolves |-> FALSE, pages |-> <<<<>>>>, failAt |-> 0, code |-> ""]} \cup
    UNION {UNION {
        {[days |-> d, resolves |-> TRUE, pages |-> PagesOf(events, p),
          failAt |-> 0, code |-> ""]} \cup
        {[days |-> d, resolves |-> TRUE, pages |-> PagesOf(events, p),
          failAt |-> f, code |-> c] :
            f \in 1..Len(PagesOf(events, p)), c \in {AccessDenied, SubscriptionRequired}} :
        p \in PageSizes, d \in {1, 2}} : events \in ListedEvents}

GetEcsServiceStatus ==
    /\ pc = "idle"
    /\ \/ ClientFails("get_ecs_service_status", "ecs")
       \/ \E w \in ServiceStatusWorlds :
             Runs("get_ecs_service_status", "ecs", w, get_ecs_service_status(w))

DescribeTaskDefinition ==
    /\ pc = "idle"
    /\ \/ ClientFails("describe_task_definition", "ecs")
       \/ \E w \in TaskDefinitionWorlds :
             Runs("describe_task_definition", "ecs", w, describe_task_definition(w))

\* list_fargate_retirements builds its own client, inside its try block, and
\* leaves the cache alone
ListFargateRetirements ==
    /\ pc = "idle"
    /\ \E w \in FargateWorlds :
          LET b == list_fargate_retirements(w) IN
          Finish("list_fargate_retirements", w, clients, Returned(b.env), b.calls,
                 <<Constructed("health", "us-east-1", w.resolves)>>)

ListEcsClusters ==
    /\ pc = "idle"
    /\ \/ ClientFails("list_ecs_clusters", "ecs")
       \/ \E w \in ClustersWorlds :
             Runs("list_ecs_clusters", "ecs", w, list_ecs_clusters(w))

ListEcsServices ==
    /\ pc = "idle"
    /\ \/ ClientFails("list_ecs_services", "ecs")
       \/ \E w \in ServicesWorlds :
             Runs("list_ecs_services", "ecs", w, list_ecs_services(w))

ListEcsTasks ==
    /\ pc = "idle"
    /\ \/ ClientFails("list_ecs_tasks", "ecs")
       \/ \E w \in TasksWorlds :
             Runs("list_ecs_tasks", "ecs", w, list_ecs_tasks(w))

-----------------------------------------------------------------------------
(* tools/s3.py *)

\* A byte count is written in base 1024, lowest digit first and without a
\* leading zero digit (0 is <<>>), so that sizes beyond the machine integers
\* of TLC keep their exact value, as Python integers do.
RECURSIVE Bytes(_)
Bytes(n) == IF n = 0 THEN <<>> ELSE <<n % 1024>> \o Bytes(n \div 1024)

\* size * 1024
Times1024(size) == IF size = <<>> THEN <<>> ELSE <<0>> \o size

RECURSIVE AddCarry(_, _, _)
AddCarry(a, b, carry) ==
    IF a = <<>> /\ b = <<>> THEN (IF carry = 0 THEN <<>> ELSE <<carry>>)
    ELSE LET x == IF a = <<>> THEN 0 ELSE Head(a)
             y == IF b = <<>> THEN 0 ELSE Head(b)
             t == x + y + carry
         IN  <<t % 1024>> \o
             AddCarry(IF a = <<>> THEN <<>> ELSE Tail(a),
                      IF b = <<>> THEN <<>> ELSE Tail(b), t \div 1024)

\* a + b
Add(a, b) == AddCarry(a, b, 0)

\* size <= 1024 ** k
BelowOrAtPow(size, k) ==
    \/ Len(size) <= k
    \/ Len(size) = k + 1 /\ size[k + 1] = 1 /\ \A i \in 1..k : size[i] = 0

\* size < 1024 ** k
BelowPow(size, k) == Len(size) <= k

RECURSIVE Value(_)
\* the byte count as an integer, for counts that fit a machine integer
Value(size) == IF size = <<>> THEN 0 ELSE Head(size) + 1024 * Value(Tail(size))

RECURSIVE Times100(_, _)
\* the digits of frac * 100 for a fraction frac / 1024 ** Len(frac), lowest
\* first, followed by the integer part
Times100(frac, carry) ==
    IF frac = <<>> THEN <<carry>>
    ELSE LET t == Head(frac) * 100 + carry
         IN  <<t % 1024>> \o Times100(Tail(frac), t \div 1024)

\* round(x, 2) of x = whole + frac, given scaled = Times100(frac, 0): to the
\* nearest hundredth, a tie to the even one, as <<whole, hundredths>>
Rounded(whole, scaled, k) ==
    LET h == scaled[k + 1]
        top == scaled[k]
        rest == \E i \in 1..(k - 1) : scaled[i] # 0
        up == \/ top > 512
              \/ top = 512 /\ rest
              \/ top = 512 /\ ~rest /\ h % 2 = 1
        total == whole * 100 + h + (IF up THEN 1 ELSE 0)
    IN  <<total \div 100, total % 100>>

\* f"{size / 1024 ** k:.2f}" for size >= 1024 ** k: the low k digits are the
\* fraction, the digits above them the integer part
Fixed2(size, k) ==
    Rounded(Value(SubSeq(size, k + 1, Len(size))),
            Times100(SubSeq(size, 1, k), 0), k)

_human_readable_size(size_bytes) ==
    IF BelowPow(size_bytes, 1) THEN <<Value(size_bytes), "B">>
    ELSE IF BelowPow(size_bytes, 2) THEN Fixed2(size_bytes, 1) \o <<"KB">>
    ELSE IF BelowPow(size_bytes, 3) THEN Fixed2(size_bytes, 2) \o <<"MB">>
    ELSE IF BelowPow(size_bytes, 4) THEN Fixed2(size_bytes, 3) \o <<"GB">>
    ELSE Fixed2(size_bytes, 4) \o <<"TB">>

\* the i-th bucket of the account
BucketName(i) == <<"assets", "backups", "logs", "media">>[i]

\* ---- list_s3_buckets

\* a world: [buckets, failAt]: the Buckets of list_buckets, a bucket carrying
\* as `location` the response of get_bucket_location for it; failAt = 1 when
\* list_buckets fails
ListBucketsCall(w) ==
    Inject(<<Call("list_buckets", <<>>, Ok(w.buckets))>>, w.failAt, AccessDenied)

\* region of a bucket: location["LocationConstraint"] or "us-east-1", and
\* "unknown" when get_bucket_location fails
RegionOf(bucket) ==
    IF ~bucket.location.ok THEN "unknown"
    ELSE IF bucket.location.data.LocationConstraint \in {"None", ""} THEN "us-east-1"
    ELSE bucket.location.data.LocationConstraint

list_s3_buckets(w) ==
    LET buckets == [i \in 1..Len(w.buckets) |->
                       [name |-> w.buckets[i].Name,
                        region |-> RegionOf(w.buckets[i]),
                        created |-> IsoFormat(w.buckets[i].CreationDate)]]
        locations == [i \in 1..Len(w.buckets) |->
                         Call("get_bucket_location", w.buckets[i].Name,
                              w.buckets[i].location)]
    IN  IF FirstFail(ListBucketsCall(w)) # 0
        THEN TryExcept(ListBucketsCall(w), <<>>)
        ELSE [env |-> [bucket_count |-> Len(buckets), buckets |-> buckets],
              calls |-> ListBucketsCall(w) \o locations]

\* ---- get_bucket_size

\* a world: [bucket_name, pages, failAt]: a page is a record that holds the
\* objects as Contents, or no Contents at all
ObjectPagesPlan(w) ==
    Inject([i \in 1..Len(w.pages) |->
               Call("list_objects_v2", w.bucket_name, Ok(w.pages[i]))],
           w.failAt, AccessDenied)

ContentsOf(page) == Get(page, "Contents", <<>>)

RECURSIVE SumSizes(_)
SumSizes(objs) ==
    IF objs = <<>> THEN <<>> ELSE Add(Head(objs).Size, SumSizes(Tail(objs)))

get_bucket_size(w) ==
    LET objs == Flatten([i \in 1..Len(w.pages) |-> ContentsOf(w.pages[i])])
        total_size == SumSizes(objs)
    IN  TryExcept(ObjectPagesPlan(w),
                  [bucket |-> w.bucket_name,
                   object_count |-> Len(objs),
                   total_size_bytes |-> total_size,
                   total_size_human |-> _human_readable_size(total_size)])

\* ---- check_bucket_public_access and get_bucket_encryption

\* a world: [bucket_name, buckets, failAt]: the Buckets of list_buckets, a
\* bucket carrying as `config` the response of the configuration read
\* bucket_names: the one named, or every bucket of list_buckets
NamedBuckets(w) ==
    IF Truthy(w.bucket_name)
    THEN SelectSeq(w.buckets, LAMBDA b : b.Name = w.bucket_name)
    ELSE w.buckets

BucketNamesCall(w) ==
    IF Truthy(w.bucket_name) THEN <<>> ELSE ListBucketsCall(w)

ConfigCalls(op, w) ==
    LET named == NamedBuckets(w) IN
    [i \in 1..Len(named) |-> Call(op, named[i].Name, named[i].config)]

\* "<code>" in str(e)
ErrorNames(resp, code) == resp.code = code

PublicAccessSettings ==
    <<"BlockPublicAcls", "IgnorePublicAcls", "BlockPublicPolicy", "RestrictPublicBuckets">>

\* bucket_info after the try block of one bucket
PublicAccessInfo(bucket) ==
    LET resp == bucket.config
        config == resp.data.PublicAccessBlockConfiguration
        off == SelectSeq(PublicAccessSettings, LAMBDA k : ~Get(config, k, FALSE))
    IN  IF resp.ok
        THEN [bucket |-> bucket.Name,
              public_access_blocked |-> off = <<>>,
              issues |-> [i \in 1..Len(off) |-> <<off[i], "is disabled">>]]
        ELSE IF ErrorNames(resp, "NoSuchPublicAccessBlockConfiguration")
        THEN [bucket |-> bucket.Name,
              public_access_blocked |-> FALSE,
              issues |-> <<<<"No public access block configured">>>>]
        ELSE [bucket |-> bucket.Name,
              public_access_blocked |-> TRUE,
              issues |-> <<<<"Error checking">> \o StrErr(resp.code)>>]

check_bucket_public_access(w) ==
    LET named == NamedBuckets(w)
        results == [i \in 1..Len(named) |-> PublicAccessInfo(named[i])]
        public_buckets == SelectSeq(results, LAMBDA r : ~r.public_access_blocked)
    IN  IF FirstFail(BucketNamesCall(w)) # 0
        THEN TryExcept(BucketNamesCall(w), <<>>)
        ELSE [env |-> [buckets_checked |-> Len(results),
                       potentially_public_count |-> Len(public_buckets),
                       buckets |-> results],
              calls |-> BucketNamesCall(w) \o ConfigCalls("get_public_access_block", w)]

\* a list-valued field that holds None is written <<>>: such a field never
\* holds an empty list (x if x else None)
OrNone(list) == IF list # <<>> THEN list ELSE <<>>

EncryptionInfo(bucket) ==
    LET resp == bucket.config
        rules == Get(Get(resp.data, "ServerSideEncryptionConfiguration", <<>>),
                     "Rules", <<>>)
        sse == Get(rules[1], "ApplyServerSideEncryptionByDefault", <<>>)
        base == [bucket |-> bucket.Name, encryption_enabled |-> TRUE,
                 encryption_type |-> Get(sse, "SSEAlgorithm", "Unknown")]
    IN  IF resp.ok
        THEN IF rules # <<>>
             THEN IF Get(sse, "KMSMasterKeyID", "") # ""
                  THEN base @@ [kms_key_id |-> sse.KMSMasterKeyID]
                  ELSE base
             ELSE [bucket |-> bucket.Name, encryption_enabled |-> FALSE,
                   encryption_type |-> "null"]
        ELSE IF ErrorNames(resp, "ServerSideEncryptionConfigurationNotFoundError")
        THEN [bucket |-> bucket.Name, encryption_enabled |-> FALSE,
              encryption_type |-> "None"]
        ELSE [bucket |-> bucket.Name, encryption_enabled |-> FALSE,
              encryption_type |-> "null", error |-> StrErr(resp.code)]

get_bucket_encryption(w) ==
    LET named == NamedBuckets(w)
        results == [i \in 1..Len(named) |-> EncryptionInfo(named[i])]
        encrypted == SelectSeq(results, LAMBDA r : r.encryption_enabled)
        plain == SelectSeq(results, LAMBDA r :
                    ~r.encryption_enabled /\ "error" \notin DOMAIN r)
        unencrypted == [i \in 1..Len(plain) |-> plain[i].bucket]
    IN  IF FirstFail(BucketNamesCall(w)) # 0
        THEN TryExcept(BucketNamesCall(w), <<>>)
        ELSE [env |-> [buckets_checked |-> Len(results),
                       encrypted_count |-> Len(encrypted),
                       unencrypted_count |-> Len(unencrypted),
                       unencrypted_buckets |-> OrNone(unencrypted),
                       buckets |-> results],
              calls |-> BucketNamesCall(w) \o ConfigCalls("get_bucket_encryption", w)]

\* ---- find_object

\* the cap on the matches find_object returns
MatchCap == 50

\* a text that is searched is the sequence of its characters; str.lower()
LowerChar(c) ==
    CASE c = "L" -> "l" [] c = "O" -> "o" [] c = "G" -> "g" [] c = "X" -> "x"
      [] OTHER -> c

LowerText(text) == [i \in 1..Len(text) |-> LowerChar(text[i])]

\* a in b, for texts
Within(a, b) ==
    \E i \in 0..(Len(b) - Len(a)) : SubSeq(b, i + 1, i + Len(a)) = a

\* is_match
IsMatch(key, object_name, exact_match) ==
    IF exact_match THEN key = object_name
    ELSE Within(LowerText(object_name), LowerText(key))

Match(bucket_name, obj) ==
    [bucket |-> bucket_name,
     key |-> obj.Key,
     size |-> _human_readable_size(obj.Size),
     last_modified |-> IsoFormat(obj.LastModified)]

\* The locals of find_object while it runs: matches, buckets_searched,
\* buckets_with_errors, the provider calls issued so far, and `returned`,
\* set when the return inside the loops is taken.
\* the cap tested with > in place of >=
FoundAboveCap(st, match) ==
    [st EXCEPT !.matches = Append(@, match),
               !.returned = Len(st.matches) + 1 > MatchCap]

\* matches.append(...); if len(matches) >= 50: return {...}
Found(st, match) ==
    [st EXCEPT !.matches = Append(@, match),
               !.returned = Len(st.matches) + 1 >= MatchCap]

RECURSIVE ScanObjects(_, _, _, _)
\* for obj in page["Contents"], over the objects not yet seen; the loop ends
\* when the return inside it was taken
ScanObjects(w, bucket_name, objs, st) ==
    IF st.returned \/ objs = <<>> THEN st
    ELSE IF IsMatch(Head(objs).Key, w.object_name, w.exact_match)
    THEN ScanObjects(w, bucket_name, Tail(objs),
                     Found(st, Match(bucket_name, Head(objs))))
    ELSE ScanObjects(w, bucket_name, Tail(objs), st)

\* the failing bucket left out of the count of buckets searched
BucketFailedUncounted(st, bucket_name, code) ==
    [st EXCEPT !.buckets_with_errors =
                   Append(@, [bucket |-> bucket_name, error |-> StrErr(code)]),
               !.buckets_searched = @ - 1]

\* the failure of one bucket ending the search
BucketFailedEndsSearch(st, bucket_name, code) ==
    [st EXCEPT !.buckets_with_errors =
                   Append(@, [bucket |-> bucket_name, error |-> StrErr(code)]),
               !.returned = TRUE]

\* the bucket's try block left by an exception: except ClientError as e
BucketFailed(st, bucket_name, code) ==
    [st EXCEPT !.buckets_with_errors =
        Append(@, [bucket |-> bucket_name, error |-> StrErr(code)])]

\* the paginator fetches a page: one more provider call
Fetched(st, bucket_name, resp) ==
    [st EXCEPT !.calls = Append(@, Call("list_objects_v2", bucket_name, resp))]

RECURSIVE ScanPages(_, _, _, _)
\* for page in paginator.paginate(Bucket=bucket_name), inside the try block
\* of the bucket, from the i-th page on: a failing page ends the bucket with
\* an entry in buckets_with_errors
ScanPages(w, bucket, i, st) ==
    IF st.returned \/ i > Len(bucket.listing) THEN st
    ELSE IF ~bucket.listing[i].ok
    THEN BucketFailed(Fetched(st, bucket.Name, bucket.listing[i]),
                      bucket.Name, bucket.listing[i].code)
    ELSE IF "Contents" \notin DOMAIN bucket.listing[i].data
    THEN ScanPages(w, bucket, i + 1, Fetched(st, bucket.Name, bucket.listing[i]))
    ELSE ScanPages(w, bucket, i + 1,
                   ScanObjects(w, bucket.Name, bucket.listing[i].data.Contents,
                               Fetched(st, bucket.Name, bucket.listing[i])))

RECURSIVE ScanBuckets(_, _, _)
\* for bucket_name in bucket_names, from the i-th bucket on
ScanBuckets(w, i, st) ==
    IF st.returned \/ i > Len(w.buckets) THEN st
    ELSE ScanBuckets(w, i + 1,
                     ScanPages(w, w.buckets[i], 1,
                               [st EXCEPT !.buckets_searched = @ + 1]))

\* the locals when find_object returns, list_buckets having succeeded
FindObjectLocals(w) ==
    ScanBuckets(w, 1, [matches |-> <<>>, buckets_searched |-> 0,
                       buckets_with_errors |-> <<>>, returned |-> FALSE,
                       calls |-> ListBucketsCall(w)])

\* the two return statements of find_object, on the locals st
FindObjectReturn(w, st) ==
    IF st.returned
    THEN [env |-> [search_term |-> w.object_name,
                   exact_match |-> w.exact_match,
                   match_count |-> Len(st.matches),
                   truncated |-> TRUE,
                   message |-> "Results limited to 50 matches",
                   buckets_searched |-> st.buckets_searched,
                   matches |-> st.matches],
          calls |-> st.calls]
    ELSE [env |-> [search_term |-> w.object_name,
                   exact_match |-> w.exact_match,
                   match_count |-> Len(st.matches),
                   truncated |-> FALSE,
                   buckets_searched |-> st.buckets_searched,
                   buckets_with_errors |-> OrNone(st.buckets_with_errors),
                   matches |-> st.matches],
          calls |-> st.calls]

\* a world: [object_name, exact_match, buckets, failAt]: the Buckets of
\* list_buckets, a bucket carrying as `listing` the responses of the pages
\* of list_objects_v2 for it; failAt = 1 when list_buckets fails
find_object(w) ==
    IF FirstFail(ListBucketsCall(w)) # 0
    THEN TryExcept(ListBucketsCall(w), <<>>)
    ELSE FindObjectReturn(w, FindObjectLocals(w))

\* ---- the worlds of the S3 tools

\* the Buckets of list_buckets: the i-th is a record of Kinds under the i-th name
BucketsFrom(Kinds) ==
    {[i \in 1..Len(s) |-> [Name |-> BucketName(i), CreationDate |-> 10 * i] @@ s[i]] :
        s \in SeqsUpTo(Kinds, MaxItems)}

LocationKinds ==
    {[location |-> Ok([LocationConstraint |-> "eu-west-1"])],
     [location |-> Ok([LocationConstraint |-> "None"])],
     [location |-> Fail(AccessDenied)]}

ListBucketsWorlds ==
    {[buckets |-> b, failAt |-> f] : b \in BucketsFrom(LocationKinds), f \in {0, 1}}

\* objects by size: 0 B, 1023 B, 1.5 KB, 1.125 KB, 1 MB, 1 GB, 1 TB
Sizes ==
    <<Bytes(0), Bytes(1023), Bytes(1536), Bytes(1152), Bytes(1048576),
      Bytes(1073741824), Times1024(Bytes(1073741824))>>

Object(key, i) == [Key |-> key, Size |-> Sizes[(i % Len(Sizes)) + 1], LastModified |-> 1000 + i]

Digit(d) == <<"0", "1", "2", "3", "4", "5", "6", "7", "8", "9">>[d + 1]

\* n objects "log00", "log01", ...
ManyObjects(n) ==
    [i \in 1..n |-> Object(<<"l", "o", "g", Digit(i \div 10), Digit(i % 10)>>, i)]

\* four objects: "log", "LOG", "xlxog" and "xLogx"
FewObjects ==
    <<Object(<<"l", "o", "g">>, 1), Object(<<"L", "O", "G">>, 2),
      Object(<<"x", "l", "x", "o", "g">>, 3), Object(<<"x", "L", "o", "g", "x">>, 4)>>

\* sizes at and next to the unit thresholds, and a tie of the rounding:
\* 1023, 1024, 1025, 1152 (1.125 KB), 1163 (1.1357 KB), 1536, 1 MB - 1, 1 MB,
\* 1 GB - 1, 1 GB, 1 TB - 1, 1 TB, 1025 TB
ThresholdSizes ==
    {Bytes(1023), Bytes(1024), Bytes(1025), Bytes(1152), Bytes(1163), Bytes(1536),
     Bytes(1048575), Bytes(1048576), Bytes(1073741823), Bytes(1073741824),
     <<1023, 1023, 1023, 1023>>, <<0, 0, 0, 0, 1>>, <<0, 0, 0, 0, 1, 1>>}

SizePageLists ==
    {<<<<>>>>,
     <<[Contents |-> FewObjects]>>,
     <<[Contents |-> FewObjects], <<>>, [Contents |-> ManyObjects(7)]>>} \cup
    {<<[Contents |-> <<[Key |-> <<"l", "o", "g">>, Size |-> size, LastModified |-> 1000]>>]>> :
        size \in ThresholdSizes}

BucketSizeWorlds ==
    UNION {{[bucket_name |-> BucketName(1), pages |-> pl, failAt |-> f] :
               f \in 0..Len(pl)} : pl \in SizePageLists}

\* the configurations get_public_access_block may answer, and its failures
PublicAccessKinds ==
    {[config |-> Ok([PublicAccessBlockConfiguration |->
                        [k \in Range(PublicAccessSettings) |-> k # x]])] :
        x \in Range(PublicAccessSettings) \cup {"none"}} \cup
    {[config |-> Ok([PublicAccessBlockConfiguration |-> [BlockPublicAcls |-> TRUE]])],
     [config |-> Fail("NoSuchPublicAccessBlockConfiguration")],
     [config |-> Fail(AccessDenied)]}

\* the worlds of a tool that reads one configuration of every bucket, or of
\* the bucket named: a bucket that is named exists
ConfigWorlds(Kinds) ==
    {w \in [bucket_name : {"None", BucketName(1)}, buckets : BucketsFrom(Kinds),
            failAt : {0, 1}] :
        Truthy(w.bucket_name) => (w.buckets # <<>> /\ w.failAt = 0)}

PublicAccessWorlds == ConfigWorlds(PublicAccessKinds)

EncryptionKinds ==
    {[config |-> Ok([ServerSideEncryptionConfiguration |-> [Rules |->
        <<[ApplyServerSideEncryptionByDefault |-> [SSEAlgorithm |-> "AES256"]]>>]])],
     [config |-> Ok([ServerSideEncryptionConfiguration |-> [Rules |->
        <<[ApplyServerSideEncryptionByDefault |->
            [SSEAlgorithm |-> "aws:kms", KMSMasterKeyID |-> "key-1"]]>>]])],
     [config |-> Ok(<<>>)],
     [config |-> Fail("ServerSideEncryptionConfigurationNotFoundError")],
     [config |-> Fail(AccessDenied)]}

EncryptionWorlds == ConfigWorlds(EncryptionKinds)

\* the listings of one bucket that find_object may meet
ObjectListings ==
    {<<Ok(<<>>)>>,
     <<Ok([Contents |-> FewObjects])>>,
     <<Ok([Contents |-> ManyObjects(MatchCap - 1)])>>,
     <<Ok([Contents |-> ManyObjects(1)])>>,
     <<Ok([Contents |-> FewObjects]), Ok([Contents |-> ManyObjects(MatchCap + 10)]),
       Ok([Contents |-> ManyObjects(2)])>>,
     <<Fail(AccessDenied)>>,
     <<Ok([Contents |-> FewObjects]), Fail(AccessDenied)>>}

SearchTerms == {<<"l", "o", "g">>, <<"L", "o", "G">>}

FindObjectWorlds ==
    {[object_name |-> t, exact_match |-> x, buckets |-> b, failAt |-> f] :
        t \in SearchTerms, x \in BOOLEAN, f \in {0, 1},
        b \in BucketsFrom({[listing |-> l] : l \in ObjectListings})}

ListS3Buckets ==
    /\ pc = "idle"
    /\ \/ ClientFails("list_s3_buckets", "s3")
       \/ \E w \in ListBucketsWorlds :
             Runs("list_s3_buckets", "s3", w, list_s3_buckets(w))

GetBucketSize ==
    /\ pc = "idle"
    /\ \/ ClientFails("get_bucket_size", "s3")
       \/ \E w \in BucketSizeWorlds :
             Runs("get_bucket_size", "s3", w, get_bucket_size(w))

CheckBucketPublicAccess ==
    /\ pc = "idle"
    /\ \/ ClientFails("check_bucket_public_access", "s3")
       \/ \E w \in PublicAccessWorlds :
             Runs("check_bucket_public_access", "s3", w, check_bucket_public_access(w))

FindObject ==
    /\ pc = "idle"
    /\ \/ ClientFails("find_object", "s3")
       \/ \E w \in FindObjectWorlds :
             Runs("find_object", "s3", w, find_object(w))

GetBucketEncryption ==
    /\ pc = "idle"
    /\ \/ ClientFails("get_bucket_encryption", "s3")
       \/ \E w \in EncryptionWorlds :
             Runs("get_bucket_encryption", "s3", w, get_bucket_encryption(w))

-----------------------------------------------------------------------------
(* tools/lambda_tools.py *)

DEPRECATED_RUNTIMES ==
    ("python2.7" :> "Deprecated since July 2022") @@
    ("python3.6" :> "Deprecated since July 2022") @@
    ("python3.7" :> "Deprecated since December 2023") @@
    ("nodejs" :> "Deprecated (legacy)") @@
    ("nodejs4.3" :> "Deprecated since April 2020") @@
    ("nodejs4.3-edge" :> "Deprecated since April 2020") @@
    ("nodejs6.10" :> "Deprecated since August 2019") @@
    ("nodejs8.10" :> "Deprecated since March 2020") @@
    ("nodejs10.x" :> "Deprecated since July 2021") @@
    ("nodejs12.x" :> "Deprecated since March 2023") @@
    ("nodejs14.x" :> "Deprecated since December 2023") @@
    ("nodejs16.x" :> "Deprecated since June 2024") @@
    ("ruby2.5" :> "Deprecated since July 2021") @@
    ("ruby2.7" :> "Deprecated since December 2023") @@
    ("java8" :> "Deprecated (Amazon Linux 1) - use java8.al2") @@
    ("dotnetcore1.0" :> "Deprecated since July 2019") @@
    ("dotnetcore2.0" :> "Deprecated since May 2019") @@
    ("dotnetcore2.1" :> "Deprecated since January 2022") @@
    ("dotnetcore3.1" :> "Deprecated since April 2023") @@
    ("dotnet5.0" :> "Deprecated since May 2022") @@
    ("dotnet6" :> "Deprecated since November 2024") @@
    ("go1.x" :> "Deprecated since January 2024 - use provided.al2")

APPROACHING_EOL_RUNTIMES ==
    ("nodejs18.x" :> "EOL expected 2025") @@
    ("python3.8" :> "EOL expected 2025") @@
    ("python3.9" :> "EOL expected 2026") @@
    ("java11" :> "EOL expected 2025") @@
    ("dotnet7" :> "EOL expected 2025")

\* A function name is the sequence of the code points of its characters, so
\* that names are ordered as Python orders strings.
RECURSIVE StrLess(_, _)
\* a < b for strings
StrLess(a, b) ==
    IF b = <<>> THEN FALSE
    ELSE IF a = <<>> THEN TRUE
    ELSE IF Head(a) # Head(b) THEN Head(a) < Head(b)
    ELSE StrLess(Tail(a), Tail(b))

\* key=lambda x: (x["deprecation_status"] is None, x["name"]), and the order
\* of such keys: False before True, then by name
KeyLess(x, y) ==
    LET xn == x.deprecation_status = "None"
        yn == y.deprecation_status = "None"
    IN  IF xn # yn THEN yn ELSE StrLess(x.name, y.name)

RECURSIVE Insert(_, _)
\* x put into the sorted list after every element that is not above it
Insert(x, sorted) ==
    IF sorted = <<>> THEN <<x>>
    ELSE IF KeyLess(x, Head(sorted)) THEN <<x>> \o sorted
    ELSE <<Head(sorted)>> \o Insert(x, Tail(sorted))

RECURSIVE Sort(_, _)
\* list.sort(key=...): a stable sort, here by insertion of the elements of
\* todo, in their order, into done
Sort(todo, done) ==
    IF todo = <<>> THEN done ELSE Sort(Tail(todo), Insert(Head(todo), done))

\* round(code_size / (1024 * 1024), 2), as <<whole, hundredths>>
CodeSizeMb(size) ==
    Rounded(Value(SubSeq(size, 3, Len(size))),
            Times100(SubSeq(size \o <<0, 0>>, 1, 2), 0), 2)

\* ---- list_lambda_functions

\* one status for both tables
DeprecationStatusOneTable(runtime) ==
    IF runtime \in DOMAIN DEPRECATED_RUNTIMES \cup DOMAIN APPROACHING_EOL_RUNTIMES
    THEN "DEPRECATED" ELSE "None"

DeprecationStatus(runtime) ==
    IF runtime \in DOMAIN DEPRECATED_RUNTIMES THEN "DEPRECATED"
    ELSE IF runtime \in DOMAIN APPROACHING_EOL_RUNTIMES THEN "APPROACHING_EOL"
    ELSE "None"

ShapeRuntime(func, runtime) ==
    [name |-> func.FunctionName,
     runtime |-> runtime,
     deprecation_status |-> DeprecationStatus(runtime),
     memory_mb |-> Get(func, "MemorySize", "None"),
     timeout_seconds |-> Get(func, "Timeout", "None"),
     code_size_mb |-> CodeSizeMb(Get(func, "CodeSize", Bytes(0))),
     last_modified |-> Get(func, "LastModified", "None"),
     description |-> Get(func, "Description", "")]

ShapeFunction(func) ==
    ShapeRuntime(func, Get(func, "Runtime", "N/A (container or custom)"))

\* a world: [region, pages, failAt], the pages holding functions
ListFunctionsPlan(w) ==
    Inject(PageLoop("list_functions", <<>>, w.pages, NoSubCalls), w.failAt, AccessDenied)

Shaped(items) == [i \in 1..Len(items) |-> ShapeFunction(items[i])]

FunctionList(functions) ==
    [function_count |-> Len(functions), functions |-> functions]

list_lambda_functions(w) ==
    TryExcept(ListFunctionsPlan(w),
              FunctionList(Sort(Shaped(Flatten(w.pages)), <<>>)))

\* ---- find_deprecated_runtimes

\* a world: [include_approaching_eol, pages, failAt]
RuntimeOf(func) == Get(func, "Runtime", "")

RuntimeEntry(func, table) ==
    [name |-> func.FunctionName,
     runtime |-> RuntimeOf(func),
     reason |-> table[RuntimeOf(func)],
     last_modified |-> Get(func, "LastModified", "None")]

\* the functions of items whose runtime is in table but not in the table
\* Before checked ahead of it, in the order listed
EntriesOf(items, table, Before) ==
    LET found == SelectSeq(items, LAMBDA func :
                     /\ RuntimeOf(func) \notin Before
                     /\ RuntimeOf(func) \in DOMAIN table)
    IN  [i \in 1..Len(found) |-> RuntimeEntry(found[i], table)]

\* runtime_summary: the number of deprecated functions by runtime
RuntimeSummary(deprecated_functions) ==
    [rt \in {deprecated_functions[i].runtime : i \in 1..Len(deprecated_functions)} |->
        Cardinality({i \in 1..Len(deprecated_functions) :
                        deprecated_functions[i].runtime = rt})]

DeprecatedResult(w, total_functions, deprecated_functions, approaching_eol_functions) ==
    [total_functions_scanned |-> total_functions,
     deprecated_count |-> Len(deprecated_functions),
     deprecated_functions |-> deprecated_functions] @@
    (IF w.include_approaching_eol
     THEN [approaching_eol_count |-> Len(approaching_eol_functions),
           approaching_eol_functions |-> approaching_eol_functions]
     ELSE <<>>) @@
    (IF deprecated_functions # <<>>
     THEN [deprecated_runtime_summary |-> RuntimeSummary(deprecated_functions)]
     ELSE <<>>)

DeprecatedOf(w, items) ==
    DeprecatedResult(w, Len(items),
                     EntriesOf(items, DEPRECATED_RUNTIMES, {}),
                     IF w.include_approaching_eol
                     THEN EntriesOf(items, APPROACHING_EOL_RUNTIMES,
                                    DOMAIN DEPRECATED_RUNTIMES)
                     ELSE <<>>)

find_deprecated_runtimes(w) ==
    TryExcept(ListFunctionsPlan(w), DeprecatedOf(w, Flatten(w.pages)))

\* ---- get_lambda_function

\* a world: [function_name, config], config the response of get_function
GetFunctionPlan(w) == <<Call("get_function", w.function_name, w.config)>>

DeprecationInfo(runtime) ==
    IF runtime \in DOMAIN DEPRECATED_RUNTIMES
    THEN [status |-> "DEPRECATED",
          message |-> DEPRECATED_RUNTIMES[runtime],
          action_required |-> "Upgrade to a supported runtime immediately"]
    ELSE IF runtime \in DOMAIN APPROACHING_EOL_RUNTIMES
    THEN [status |-> "APPROACHING_EOL",
          message |-> APPROACHING_EOL_RUNTIMES[runtime],
          action_required |-> "Plan upgrade to newer runtime"]
    ELSE <<>>

\* list(variables.items()) in place of the keys
KeysAndValues(items) == items

\* list(variables.keys()): a dict is the sequence of its <<key, value>> items
Keys(items) == [i \in 1..Len(items) |-> items[i][1]]

\* layer["Arn"].split(":")[-2]
LayerName(layer) == layer.Arn[Len(layer.Arn) - 1]

LayerNames(layers) == [i \in 1..Len(layers) |-> LayerName(layers[i])]

FunctionDetails(func, runtime, tags, env_vars) ==
    [name |-> func.FunctionName,
     arn |-> func.FunctionArn,
     runtime |-> runtime,
     deprecation_info |-> DeprecationInfo(runtime),
     handler |-> Get(func, "Handler", "None"),
     role |-> LastPart(Get(func, "Role", <<"">>)),
     memory_mb |-> Get(func, "MemorySize", "None"),
     timeout_seconds |-> Get(func, "Timeout", "None"),
     code_size_mb |-> CodeSizeMb(Get(func, "CodeSize", Bytes(0))),
     last_modified |-> Get(func, "LastModified", "None"),
     description |-> Get(func, "Description", ""),
     state |-> Get(func, "State", "None"),
     architectures |-> Get(func, "Architectures", <<"x86_64">>),
     environment_variables |-> OrNone(env_vars),
     vpc_config |-> Get(Get(func, "VpcConfig", <<>>), "VpcId", "None"),
     layers |-> LayerNames(Get(func, "Layers", <<>>)),
     tags |-> OrNone(tags)]

FunctionResult(config) ==
    FunctionDetails(config.Configuration,
                    Get(config.Configuration, "Runtime", "N/A (container or custom)"),
                    Get(config, "Tags", <<>>),
                    Keys(Get(Get(config.Configuration, "Environment", <<>>),
                             "Variables", <<>>)))

get_lambda_function(w) ==
    TryExcept(GetFunctionPlan(w), FunctionResult(w.config.data))

\* ---- list_lambda_runtimes

supported ==
    <<"python3.13", "python3.12", "python3.11", "python3.10",
      "nodejs22.x", "nodejs20.x",
      "java21", "java17",
      "ruby3.3", "ruby3.2",
      "dotnet8",
      "provided.al2023", "provided.al2">>

list_lambda_runtimes ==
    [supported_runtimes |-> supported,
     approaching_eol |-> APPROACHING_EOL_RUNTIMES,
     deprecated_runtimes |-> DEPRECATED_RUNTIMES,
     recommendation |-> "Use the latest supported runtime for your language. Prefer Amazon Linux 2023 (al2023) based runtimes."]

\* ---- the worlds of the Lambda tools

\* the names "b", "a", "B", "ab" as code points: the provider lists functions
\* in an order of its own
FunctionName(i) == <<(<<98>>), (<<97>>), (<<66>>), (<<97, 98>>)>>[i]

\* functions on a deprecated runtime, on one approaching its end of life, on
\* a supported one, and a container image, which has no runtime
FunctionKinds ==
    {[Runtime |-> "python3.7", MemorySize |-> 128, Timeout |-> 3,
      CodeSize |-> Bytes(1572864), LastModified |-> "2021-05-01",
      Description |-> "legacy api"],
     [Runtime |-> "python3.9", CodeSize |-> Bytes(5243)],
     [Runtime |-> "python3.12", MemorySize |-> 256],
     [Description |-> "container image"]}

ListedFunctions ==
    {[i \in 1..Len(s) |-> [FunctionName |-> FunctionName(i)] @@ s[i]] :
        s \in SeqsUpTo(FunctionKinds, MaxItems)}

Regions == {"None", "eu-west-1"}

ListFunctionsWorlds ==
    PagedWorlds(ListedFunctions, {[region |-> r] : r \in Regions}, ListFunctionsPlan)

DeprecatedWorlds ==
    PagedWorlds(ListedFunctions,
                {[include_approaching_eol |-> b] : b \in BOOLEAN}, ListFunctionsPlan)

\* what get_function may answer
FunctionConfigs ==
    {Ok([Configuration |->
            [FunctionName |-> FunctionName(1),
             FunctionArn |-> <<"arn:aws:lambda:function", FunctionName(1)>>,
             Runtime |-> rt, Handler |-> "app.handler",
             Role |-> <<"arn:aws:iam::1:role", "exec">>,
             MemorySize |-> 128, Timeout |-> 3, CodeSize |-> Bytes(1572864),
             LastModified |-> "2021-05-01", Description |-> "legacy api",
             State |-> "Active", Architectures |-> <<"arm64">>,
             Environment |-> [Variables |-> variables],
             VpcConfig |-> [VpcId |-> "vpc-1"],
             Layers |-> <<[Arn |-> <<"arn", "aws", "lambda", "eu-west-1", "1",
                                     "layer", "numpy", "3">>]>>],
         Tags |-> tags]) :
        rt \in {"python3.7", "python3.9", "python3.12"},
        variables \in {<<>>, <<<<"DB_PASSWORD", "hunter2">>, <<"STAGE", "prod">>>>,
                        <<<<"DB_PASSWORD", "">>, <<"STAGE", "dev">>>>},
        tags \in {<<>>, <<<<"team", "core">>>>}} \cup
    {Ok([Configuration |->
            [FunctionName |-> FunctionName(1),
             FunctionArn |-> <<"arn:aws:lambda:function", FunctionName(1)>>]]),
     Ok([Configuration |->
            [FunctionName |-> FunctionName(1),
             FunctionArn |-> <<"arn:aws:lambda:function", FunctionName(1)>>,
             Environment |-> [Error |-> "AccessDeniedException"]]]),
     Fail("ResourceNotFoundException"),
     Fail(AccessDenied)}

GetFunctionWorlds ==
    {[function_name |-> FunctionName(1), config |-> c] : c \in FunctionConfigs}

\* line 57 with a region given:  __import__("boto3").client("lambda",
\* region_name=region), a handle that the cache never sees
RunsInRegion(name, w, body) ==
    /\ ~Boto3Client("lambda", TRUE).raised
    /\ Finish(name, w, clients, Returned(body.env), body.calls,
              <<Constructed("lambda", w.region, TRUE)>>)

RegionClientFails(name, w) ==
    /\ Boto3Client("lambda", FALSE).raised
    /\ Finish(name, w, clients, Raised("NoCredentialsError"), <<>>,
              <<Constructed("lambda", w.region, FALSE)>>)

ListLambdaFunctions ==
    /\ pc = "idle"
    /\ \/ ClientFails("list_lambda_functions", "lambda")
       \/ \E r \in Regions \ {"None"} :
             RegionClientFails("list_lambda_functions", [region |-> r])
       \/ \E w \in ListFunctionsWorlds :
             IF Truthy(w.region)
             THEN RunsInRegion("list_lambda_functions", w, list_lambda_functions(w))
             ELSE Runs("list_lambda_functions", "lambda", w, list_lambda_functions(w))

FindDeprecatedRuntimes ==
    /\ pc = "idle"
    /\ \/ ClientFails("find_deprecated_runtimes", "lambda")
       \/ \E w \in DeprecatedWorlds :
             Runs("find_deprecated_runtimes", "lambda", w, find_deprecated_runtimes(w))

GetLambdaFunction ==
    /\ pc = "idle"
    /\ \/ ClientFails("get_lambda_function", "lambda")
       \/ \E w \in GetFunctionWorlds :
             Runs("get_lambda_function", "lambda", w, get_lambda_function(w))

\* list_lambda_runtimes takes no client and calls no provider
ListLambdaRuntimes ==
    /\ pc = "idle"
    /\ Finish("list_lambda_runtimes", <<>>, clients, Returned(list_lambda_runtimes),
              <<>>, <<>>)

-----------------------------------------------------------------------------
(* The specification *)

Init ==
    /\ clients = <<>>
    /\ pc = "idle"
    /\ tool = ""
    /\ world = <<>>
    /\ result = <<>>
    /\ calls = <<>>
    /\ built = <<>>
    /\ cached = <<>>
    /\ frames = [t \in Threads |-> NotInGetClient]

Next ==
    \/ ListIamUsers
    \/ ListUsersWithStaleCredentials
    \/ ListUsersWithAdminAccess
    \/ ListIamRoles
    \/ GetRoleTrustPolicy
    \/ ListAccessKeys
    \/ ListEcsClusters
    \/ ListEcsServices
    \/ ListEcsTasks
    \/ GetEcsServiceStatus
    \/ DescribeTaskDefinition
    \/ ListFargateRetirements
    \/ ListS3Buckets
    \/ GetBucketSize
    \/ CheckBucketPublicAccess
    \/ FindObject
    \/ GetBucketEncryption
    \/ ListLambdaFunctions
    \/ FindDeprecatedRuntimes
    \/ GetLambdaFunction
    \/ ListLambdaRuntimes
    \/ Deliver

Spec == Init /\ [][Next]_vars

-----------------------------------------------------------------------------
(* get_client called from two threads                                      *)
(*                                                                         *)
(* get_client takes no lock: between its membership test, the call of      *)
(* boto3.client, the store into _clients and the read it returns, another  *)
(* thread may run.  A frame is where a thread stands in get_client; here   *)
(* `built` logs every construction since the start, and the n-th call of   *)
(* boto3.client returns an object of its own.                              *)

RaceNext == \E t \in Threads : GetClientStep(t)

RaceSpec == Init /\ [][RaceNext]_vars

-----------------------------------------------------------------------------
(* The envelope: error or success *)

\* the fields every success return of a tool carries
SuccessFields ==
    [list_iam_users |-> {"user_count", "users"},
     list_users_with_stale_credentials |->
        {"threshold_days", "stale_credential_count", "users"},
     list_users_with_admin_access |-> {"admin_user_count", "users"},
     list_iam_roles |-> {"role_count", "roles"},
     get_role_trust_policy |-> {"role_name", "trust_policy"},
     list_access_keys |-> {"key_count", "access_keys"},
     list_ecs_clusters |-> {"cluster_count", "clusters"},
     list_ecs_services |-> {"cluster", "service_count", "services"},
     get_ecs_service_status |->
        {"cluster", "service_name", "status", "deployments", "recent_events"},
     list_ecs_tasks |-> {"cluster", "task_count", "tasks"},
     describe_task_definition |-> {"family", "revision", "containers"},
     list_fargate_retirements |-> {"days_checked", "retirement_count", "retirements"},
     list_s3_buckets |-> {"bucket_count", "buckets"},
     get_bucket_size |->
        {"bucket", "object_count", "total_size_bytes", "total_size_human"},
     check_bucket_public_access |->
        {"buckets_checked", "potentially_public_count", "buckets"},
     find_object |->
        {"search_term", "exact_match", "match_count", "truncated",
         "buckets_searched", "matches"},
     get_bucket_encryption |->
        {"buckets_checked", "encrypted_count", "unencrypted_count",
         "unencrypted_buckets", "buckets"},
     list_lambda_functions |-> {"function_count", "functions"},
     find_deprecated_runtimes |->
        {"total_functions_scanned", "deprecated_count", "deprecated_functions"},
     get_lambda_function |-> {"name", "arn", "runtime", "deprecation_info"},
     list_lambda_runtimes |->
        {"supported_runtimes", "approaching_eol", "deprecated_runtimes",
         "recommendation"}]

\* the only fields an error envelope may carry
ErrorFields == {"error", "suggestion"}

\* a tool has returned (no exception left it)
HasReturned == pc = "returned" /\ result.kind = "return"

\* C1: whatever the provider answered, the envelope a tool returns either
\* carries `error` and nothing but error fields, or carries every success
\* field of the tool and no `error`: exactly one of the two.
EnvelopeIsErrorOrSuccess ==
    HasReturned =>
        /\ ("error" \in DOMAIN result.env) # (SuccessFields[tool] \subseteq DOMAIN result.env)
        /\ "error" \in DOMAIN result.env => DOMAIN result.env \subseteq ErrorFields

\* list_fargate_retirements has answered a missing subscription: the error
\* envelope that carries a second field
EnvelopeWithSuggestion ==
    /\ HasReturned
    /\ tool = "list_fargate_retirements"
    /\ DOMAIN result.env = {"error", "suggestion"}
    /\ Len(calls) > 1

-----------------------------------------------------------------------------
(* Stale credentials *)

\* the whole days in a number of hours: the d with d days <= hours < d + 1 days
WholeDays(hours) ==
    CHOOSE d \in 0..hours : d * HoursPerDay <= hours /\ hours < (d + 1) * HoursPerDay

\* the keys the provider lists, as <<username, access_key_id, age in days>>
ListedKeys(users) ==
    UNION {{<<users[u].UserName, users[u].keys[k].AccessKeyId,
              WholeDays(Now - users[u].keys[k].CreateDate)>> :
                k \in 1..Len(users[u].keys)} : u \in 1..Len(users)}

StaleReturned ==
    /\ HasReturned
    /\ tool = "list_users_with_stale_credentials"
    /\ "error" \notin DOMAIN result.env

\* C2: list_users_with_stale_credentials(days) reports a key if and only if
\* its age in whole days is strictly above `days`, with that age as
\* key_age_days, and makes one entry per stale key.
StaleIffOlderThanThreshold ==
    StaleReturned =>
        LET stale == {k \in ListedKeys(Flatten(world.pages)) : k[3] > world.days}
            entries == result.env.users
        IN  /\ {<<entries[i].username, entries[i].access_key_id,
                  entries[i].key_age_days>> : i \in 1..Len(entries)} = stale
            /\ Len(entries) = Cardinality(stale)
            /\ result.env.stale_credential_count = Cardinality(stale)

\* threshold 90 with a key aged 91 days and a key aged 90 days: one entry,
\* of age 91
StaleAtThreshold ==
    /\ StaleReturned
    /\ world.days = 90
    /\ {k[3] : k \in ListedKeys(Flatten(world.pages))} = {90, 91}
    /\ Len(result.env.users) = 1
    /\ result.env.users[1].key_age_days = 91

-----------------------------------------------------------------------------
(* Batched describe *)

BatchedTools == {"list_ecs_services", "list_ecs_tasks"}

BatchSize == [list_ecs_services |-> ServiceBatch, list_ecs_tasks |-> TaskBatch]

DescribeOp == [list_ecs_services |-> "describe_services", list_ecs_tasks |-> "describe_tasks"]

\* the describe calls of the invocation, in the order issued
DescribesIssued == SelectSeq(calls, LAMBDA c : c.op = DescribeOp[tool])

\* the identifier of every record the describe calls answered, call by call
RecordsAnswered ==
    Flatten([c \in 1..Len(DescribesIssued) |->
        [j \in 1..Len(DescribesIssued[c].resp.data) |->
            IF tool = "list_ecs_services"
            THEN DescribesIssued[c].resp.data[j].serviceName
            ELSE LastPart(DescribesIssued[c].resp.data[j].taskArn)]])

\* the identifier of every record of the result
RecordsReturned ==
    IF tool = "list_ecs_services"
    THEN [i \in 1..Len(result.env.services) |-> result.env.services[i].name]
    ELSE [i \in 1..Len(result.env.tasks) |-> result.env.tasks[i].task_id]

BatchedReturned ==
    /\ HasReturned
    /\ tool \in BatchedTools
    /\ "error" \notin DOMAIN result.env

\* C3: for n listed identifiers list_ecs_services (B = 10) and list_ecs_tasks
\* (B = 100) issue ceil(n / B) describe calls, each of at most B identifiers,
\* the calls together carrying the identifiers in listing order; the result
\* is the records of the calls in call order; no call and no record for n = 0.
DescribeInBatches ==
    BatchedReturned =>
        LET n == Len(Flatten(world.pages))
            d == DescribesIssued
        IN  /\ Len(d) * BatchSize[tool] >= n
            /\ (Len(d) - 1) * BatchSize[tool] < n
            /\ \A c \in 1..Len(d) : Len(d[c].arg) \in 1..BatchSize[tool]
            /\ Flatten([c \in 1..Len(d) |-> d[c].arg]) = Flatten(world.pages)
            /\ RecordsReturned = RecordsAnswered
            /\ n = 0 => d = <<>> /\ RecordsReturned = <<>>

\* 12 services: two describe calls, of 10 and of 2, and 12 records
TwelveInTwoBatches ==
    /\ BatchedReturned
    /\ tool = "list_ecs_services"
    /\ Len(Flatten(world.pages)) = 12
    /\ [c \in 1..Len(DescribesIssued) |-> Len(DescribesIssued[c].arg)] = <<10, 2>>
    /\ Len(result.env.services) = 12

-----------------------------------------------------------------------------
(* find_object: the cap, the count of buckets, the failing buckets *)

SetMin(S) == CHOOSE x \in S : \A y \in S : x <= y

\* the pages of a bucket a search without cap fetches: all of them, or those
\* up to its first failing page
FetchesOf(bucket) ==
    LET bad == {i \in 1..Len(bucket.listing) : ~bucket.listing[i].ok}
    IN  [i \in 1..(IF bad = {} THEN Len(bucket.listing) ELSE SetMin(bad)) |->
            [bucket |-> bucket.Name, resp |-> bucket.listing[i]]]

\* the fetches of a search without cap over all buckets, in order
FullScan(w) == Flatten([b \in 1..Len(w.buckets) |-> FetchesOf(w.buckets[b])])

\* the objects of a fetched page that match the search
MatchingIn(w, fetch) ==
    IF fetch.resp.ok /\ "Contents" \in DOMAIN fetch.resp.data
    THEN {j \in 1..Len(fetch.resp.data.Contents) :
            IsMatch(fetch.resp.data.Contents[j].Key, w.object_name, w.exact_match)}
    ELSE {}

\* the first of the fetches of scan, from the i-th on, at which the matches
\* found so far (found of them before the i-th) are 50 or more, and 0 when
\* there is none
RECURSIVE CapFetchFrom(_, _, _, _)
CapFetchFrom(w, scan, i, found) ==
    IF i > Len(scan)
    THEN 0
    ELSE LET upTo == found + Cardinality(MatchingIn(w, scan[i]))
         IN  IF upTo >= MatchCap THEN i ELSE CapFetchFrom(w, scan, i + 1, upTo)

\* the fetch of a search without cap at which the 50th match is found, and
\* 0 when the whole search finds fewer than 50
CapFetch(w) == CapFetchFrom(w, FullScan(w), 1, 0)

FindReturned ==
    /\ HasReturned
    /\ tool = "find_object"
    /\ "error" \notin DOMAIN result.env

\* the list_objects_v2 calls of the invocation
FetchesIssued == SelectSeq(calls, LAMBDA c : c.op = "list_objects_v2")

\* the search was truncated exactly if the search without cap has a fetch
\* `cap` at which the 50th match is found (cap is 0 when it has none), and
\* then the fetches issued are the first cap fetches of scan, no more
StoppedAt(cap, scan) ==
    /\ result.env.truncated = (cap # 0)
    /\ cap # 0 =>
          /\ result.env.match_count = MatchCap
          /\ "message" \in DOMAIN result.env
          /\ Len(FetchesIssued) = cap
          /\ [i \in 1..Len(FetchesIssued) |->
                [bucket |-> FetchesIssued[i].arg, resp |-> FetchesIssued[i].resp]] =
                  SubSeq(scan, 1, cap)

\* C4: once the matches of find_object reach 50 it returns with truncated
\* true, match_count 50 and a message, having fetched no page beyond the one
\* where the 50th match was; no result holds more than 50 matches.
CapStopsSearch ==
    FindReturned =>
        /\ Len(result.env.matches) <= MatchCap
        /\ result.env.match_count = Len(result.env.matches)
        /\ StoppedAt(CapFetch(world), FullScan(world))

\* the cap was reached with pages of the search space left unfetched
CapReachedEarly ==
    /\ FindReturned
    /\ result.env.truncated
    /\ result.env.match_count = MatchCap
    /\ Len(FetchesIssued) < Len(FullScan(world))
    /\ Len(world.buckets) > result.env.buckets_searched

\* C5: a search that ends below 50 matches returns truncated false and
\* buckets_searched equal to the number of buckets list_buckets gave, the
\* buckets whose listing failed included.
BelowCapSearchesAllBuckets ==
    (FindReturned /\ CapFetch(world) = 0) =>
        /\ result.env.truncated = FALSE
        /\ result.env.buckets_searched = Len(world.buckets)

\* a search below the cap over two buckets, the listing of one failing
AllBucketsCountedDespiteFailure ==
    /\ FindReturned
    /\ ~result.env.truncated
    /\ Len(world.buckets) = 2
    /\ result.env.buckets_searched = 2
    /\ \E c \in Range(FetchesIssued) : ~c.resp.ok
    /\ result.env.match_count > 0

\* the entries {bucket, error} of the failing ones among fetches
FailuresOf(fetches) ==
    LET failed == SelectSeq(fetches, LAMBDA c : ~c.resp.ok)
    IN  [i \in 1..Len(failed) |->
            [bucket |-> failed[i].arg, error |-> StrErr(failed[i].resp.code)]]

\* C6: in find_object the failure of one bucket's listing does not end the
\* search: it is recorded as {bucket, error} in the side list, the buckets
\* after it are still searched (short of the cap) and the envelope is a
\* success; the envelope is {error} only when list_buckets itself failed.
BucketFailureDoesNotAbort ==
    (HasReturned /\ tool = "find_object") =>
        /\ ("error" \in DOMAIN result.env) = ~calls[1].resp.ok
        /\ calls[1].op = "list_buckets"
        /\ FindReturned =>
              /\ FindObjectLocals(world).buckets_with_errors = FailuresOf(FetchesIssued)
              /\ CapFetch(world) = 0 =>
                    /\ "buckets_with_errors" \in DOMAIN result.env
                    /\ result.env.buckets_with_errors = FailuresOf(FetchesIssued)
                    /\ {c.arg : c \in Range(FetchesIssued)} =
                          {world.buckets[b].Name : b \in 1..Len(world.buckets)}
                    /\ Len(FetchesIssued) = Len(FullScan(world))

\* the listing of the first bucket failed and the second bucket gave matches
SearchGoesOnAfterFailure ==
    /\ FindReturned
    /\ ~result.env.truncated
    /\ Len(world.buckets) = 2
    /\ Len(FetchesIssued) = 2
    /\ ~FetchesIssued[1].resp.ok
    /\ Len(result.env.buckets_with_errors) = 1
    /\ result.env.buckets_with_errors[1].bucket = world.buckets[1].Name
    /\ result.env.match_count > 0
    /\ \A m \in Range(result.env.matches) : m.bucket = world.buckets[2].Name

-----------------------------------------------------------------------------
(* Plain listing tools: a failure aborts *)

PlainListingTools ==
    {"list_iam_users", "list_iam_roles", "list_users_with_stale_credentials",
     "list_users_with_admin_access", "list_access_keys", "list_ecs_clusters",
     "list_ecs_services", "list_ecs_tasks", "list_lambda_functions"}

\* a provider call of the invocation failed
SomeCallFailed == \E i \in 1..Len(calls) : ~calls[i].resp.ok

\* C7: in the plain listing tools a provider failure on any page, chunk or
\* per-item call ends the invocation: no call follows the failing one and the
\* envelope is {error} alone, with nothing of what was collected before.
ListingFailureAborts ==
    (HasReturned /\ tool \in PlainListingTools /\ SomeCallFailed) =>
        /\ DOMAIN result.env = {"error"}
        /\ result.env.error = StrErr(calls[Len(calls)].resp.code)
        /\ \A i \in 1..(Len(calls) - 1) : calls[i].resp.ok

\* list_ecs_services: the second describe call failed after the first had
\* answered ten services
SecondChunkFailed ==
    /\ HasReturned
    /\ tool = "list_ecs_services"
    /\ Len(DescribesIssued) = 2
    /\ Len(DescribesIssued[1].resp.data) = ServiceBatch
    /\ ~DescribesIssued[2].resp.ok
    /\ DOMAIN result.env = {"error"}

-----------------------------------------------------------------------------
(* Administrator access *)

\* the sources through which a listed user holds AdministratorAccess
SourcesOf(user) ==
    {<<"direct_attachment">> : p \in {q \in Range(user.attached) :
                                        q.PolicyArn = admin_policy_arn}} \cup
    {<<"group", g.GroupName>> : g \in {h \in Range(user.groups) :
        \E q \in Range(GroupPolicies(h.GroupName)) : q.PolicyArn = admin_policy_arn}}

AdminReturned ==
    /\ HasReturned
    /\ tool = "list_users_with_admin_access"
    /\ "error" \notin DOMAIN result.env

\* C8: list_users_with_admin_access returns a user if and only if
\* AdministratorAccess is attached to the user or to one of the user's
\* groups, returns such a user once, and lists in admin_source every source:
\* direct_attachment and each qualifying group, each once.
AdminIffDirectOrGroup ==
    AdminReturned =>
        LET users == Flatten(world.pages)
            admins == {u \in Range(users) : SourcesOf(u) # {}}
            entries == result.env.users
        IN  /\ {entries[i].username : i \in 1..Len(entries)} =
                  {u.UserName : u \in admins}
            /\ Len(entries) = Cardinality(admins)
            /\ result.env.admin_user_count = Cardinality(admins)
            /\ \A i \in 1..Len(entries) : \A u \in admins :
                  u.UserName = entries[i].username =>
                      /\ Range(entries[i].admin_source) = SourcesOf(u)
                      /\ Len(entries[i].admin_source) = Cardinality(SourcesOf(u))

\* a user who is administrator directly and through two groups: one entry,
\* three sources
AdminThroughThreeSources ==
    /\ AdminReturned
    /\ Len(Flatten(world.pages)) = 2
    /\ Len(result.env.users) = 1
    /\ result.env.users[1].admin_source =
          <<(<<"direct_attachment">>), (<<"group", "admins">>), (<<"group", "ops">>)>>

-----------------------------------------------------------------------------
(* Failures surface in the envelope *)

\* the envelope carries a trace of the failing call c: a top-level error, or
\* an error entry for the item the call was about
Traced(c) ==
    \/ "error" \in DOMAIN result.env
    \/ /\ tool = "find_object"
       /\ "buckets_with_errors" \in DOMAIN result.env
       /\ \E e \in Range(result.env.buckets_with_errors) : e.bucket = c.arg
    \/ /\ tool = "get_bucket_encryption"
       /\ \E b \in Range(result.env.buckets) :
             b.bucket = c.arg /\ ("error" \in DOMAIN b \/ b.encryption_type = "None")
    \/ /\ tool = "check_bucket_public_access"
       /\ \E b \in Range(result.env.buckets) : b.bucket = c.arg /\ b.issues # <<>>

\* C9: no error is swallowed: whenever a provider call of an invocation
\* failed, the envelope returned carries a trace of that failure.
EveryFailureSurfaces ==
    HasReturned => \A i \in 1..Len(calls) : ~calls[i].resp.ok => Traced(calls[i])

\* C10: when the provider client cannot be constructed the tool returns an
\* error envelope; no exception leaves the tool.
ClientFailureIsAnEnvelope ==
    pc = "returned" =>
        /\ result.kind = "return"
        /\ (tool = "list_fargate_retirements" /\ ~world.resolves) =>
              "error" \in DOMAIN result.env

-----------------------------------------------------------------------------
(* The client cache *)

\* the constructions get_client made in the last invocation
GetClientBuilt == {b \in Range(built) : b.region = "default"}

\* every handle the invocation found in the cache is still there, unchanged
CacheKept == \A s \in DOMAIN cached : s \in DOMAIN clients /\ clients[s] = cached[s]

\* C11: the client cache is write-once per key: the first successful
\* get_client(s) constructs a handle and stores it under s, a later
\* get_client(s) constructs nothing, and an invocation never replaces or
\* removes an entry of the cache.
CacheIsWriteOnce ==
    pc = "returned" =>
        /\ CacheKept
        /\ \A b \in GetClientBuilt :
              /\ b.service \notin DOMAIN cached
              /\ ~b.raised =>
                    /\ b.service \in DOMAIN clients
                    /\ clients[b.service] = Boto3Client(b.service, TRUE).handle
        /\ DOMAIN clients = DOMAIN cached \cup {b.service : b \in {x \in GetClientBuilt : ~x.raised}}

\* a tool of IAM ran on a cache that held the IAM client already: it was
\* served the cached handle, and a second service had been cached before
ServedFromCache ==
    /\ pc = "returned"
    /\ tool = "list_iam_users"
    /\ result.kind = "return"
    /\ {"iam", "s3"} \subseteq DOMAIN cached
    /\ built = <<>>
    /\ clients = cached

\* C12: at most one client handle is constructed per service name: every
\* handle an invocation constructs is for a service the cache did not hold,
\* and is the handle the cache holds afterwards.
OneHandlePerService ==
    pc = "returned" =>
        \A b \in Range(built) :
            ~b.raised => b.service \notin DOMAIN cached /\ b.service \in DOMAIN clients

\* the invocation did not succeed: an exception left it, or it returned an
\* error envelope
EndedInError ==
    \/ result.kind = "exception"
    \/ result.kind = "return" /\ "error" \in DOMAIN result.env

\* C13: a failure leaves the client cache as it was: a construction that
\* fails adds no entry (get_client will construct again at the next call),
\* and an invocation that ends in an error neither removes nor replaces a
\* cached handle.
FailureLeavesCache ==
    pc = "returned" =>
        /\ \A b \in Range(built) : b.raised => clients = cached
        /\ \A b \in GetClientBuilt : b.raised => b.service \notin DOMAIN clients
        /\ EndedInError => CacheKept

\* get_client failed to construct the S3 client while the cache held the IAM
\* client
ConstructionFailedOnWarmCache ==
    /\ pc = "returned"
    /\ result.kind = "exception"
    /\ built = <<Constructed("s3", "default", FALSE)>>
    /\ DOMAIN cached = {"iam"}
    /\ clients = cached

-----------------------------------------------------------------------------
(* The entitlement error of the Health API *)

\* the codes of the calls of the last invocation that failed
FailedCodes == {c.resp.code : c \in {x \in Range(calls) : ~x.resp.ok}}

\* C14: in list_fargate_retirements, whenever a Health API call of the
\* invocation (a describe_events page or describe_affected_entities) failed
\* with SubscriptionRequiredException, the envelope carries `suggestion`;
\* any other provider error gives the bare {error}.
EntitlementErrorCarriesSuggestion ==
    (HasReturned /\ tool = "list_fargate_retirements" /\ world.resolves) =>
        /\ SubscriptionRequired \in FailedCodes =>
              "suggestion" \in DOMAIN result.env
        /\ (FailedCodes # {} /\ SubscriptionRequired \notin FailedCodes
               /\ "error" \in DOMAIN result.env) =>
              DOMAIN result.env = {"error"}

-----------------------------------------------------------------------------
(* A named resource that does not exist *)

ResourceNotFound == "ResourceNotFoundException"

\* C15: when the named resource does not exist, get_ecs_service_status and
\* get_lambda_function return {error: "<resource> not found in <context>"},
\* which names the resource, and not the text of the provider's error.
NotFoundNamesTheResource ==
    HasReturned =>
        /\ (tool = "get_ecs_service_status" /\ world.failAt = 0
               /\ world.services = <<>>) =>
              result.env = [error |-> <<"Service not found in cluster",
                                        world.service_name, world.cluster_name>>]
        /\ (tool = "get_lambda_function" /\ ~world.config.ok
               /\ world.config.code = ResourceNotFound) =>
              /\ DOMAIN result.env = {"error"}
              /\ result.env.error # StrErr(ResourceNotFound)

-----------------------------------------------------------------------------
(* Environment variables: names only *)

\* the values an environment variable may hold
VariableValues == {"hunter2", "prod", "", "0"}

\* the items of a dict with every value replaced by value[i], i the position
Revalued(items, value) == [i \in 1..Len(items) |-> <<items[i][1], value[i]>>]

\* the variables of the function get_function answered about
VariablesOf(w) ==
    Get(Get(w.config.data.Configuration, "Environment", <<>>), "Variables", <<>>)

\* world w with the values of the environment variables replaced
WithValues(w, value) ==
    [w EXCEPT !.config.data.Configuration.Environment.Variables = Revalued(@, value)]

GetFunctionReturned ==
    HasReturned /\ tool = "get_lambda_function" /\ world.config.ok

\* C16: the result of get_lambda_function does not depend on the values of
\* the environment variables: a provider response that differs from the one
\* given only in those values yields the same envelope, which holds the
\* names of the variables.
ResultIgnoresVariableValues ==
    (GetFunctionReturned /\ VariablesOf(world) # <<>>) =>
        /\ \A value \in [1..Len(VariablesOf(world)) -> VariableValues] :
              get_lambda_function(WithValues(world, value)).env = result.env
        /\ result.env.environment_variables = Keys(VariablesOf(world))

\* a function with a password in its environment was described
PasswordNotSurfaced ==
    /\ GetFunctionReturned
    /\ VariablesOf(world) = <<(<<"DB_PASSWORD", "hunter2">>), (<<"STAGE", "prod">>)>>
    /\ result.env.environment_variables = <<"DB_PASSWORD", "STAGE">>

-----------------------------------------------------------------------------
(* Pagination of list_iam_users *)

RECURSIVE ItemsBefore(_, _)
\* the number of items on the pages before page i
ItemsBefore(pages, i) ==
    IF i <= 1 THEN 0 ELSE ItemsBefore(pages, i - 1) + Len(pages[i - 1])

UsersReturned ==
    HasReturned /\ tool = "list_iam_users" /\ "error" \notin DOMAIN result.env

\* C17: for a listing served as k pages, list_iam_users returns one record
\* per item of the k pages, in the provider's order, none dropped,
\* duplicated or reordered, after exactly k listing calls, and user_count is
\* the number of records.
PagedListingIsComplete ==
    UsersReturned =>
        LET k == Len(world.pages) IN
        /\ Len(calls) = k
        /\ \A i \in 1..k : calls[i].op = "list_users" /\ calls[i].resp = Ok(world.pages[i])
        /\ Len(result.env.users) = ItemsBefore(world.pages, k + 1)
        /\ \A i \in 1..k : \A j \in 1..Len(world.pages[i]) :
              result.env.users[ItemsBefore(world.pages, i) + j] =
                  ShapeUser(world.pages[i][j])
        /\ result.env.user_count = Len(result.env.users)

\* three users served as a full page and a partial one
ThreeUsersOnTwoPages ==
    /\ UsersReturned
    /\ Len(world.pages) = 2
    /\ Len(world.pages[1]) = 2
    /\ Len(world.pages[2]) = 1
    /\ Len(calls) = 2
    /\ [i \in 1..3 |-> result.env.users[i].username] = <<"alice", "bob", "carol">>

-----------------------------------------------------------------------------
(* Human-readable sizes *)

\* 1024 ** k for k in 1..3
Unit(k) == CASE k = 1 -> 1024 [] k = 2 -> 1024 * 1024 [] k = 3 -> 1024 * 1024 * 1024

UnitName(k) == <<"KB", "MB", "GB", "TB">>[k]

\* n / Unit(k) to the nearest hundredth, a tie to the even hundredth, written
\* <<integer part, hundredths>>
TwoDecimals(n, k) ==
    LET scaled == (n % Unit(k)) * 100
        down == (n \div Unit(k)) * 100 + scaled \div Unit(k)
        rest == scaled % Unit(k)
        up == 2 * rest > Unit(k) \/ (2 * rest = Unit(k) /\ down % 2 = 1)
        hundredths == IF up THEN down + 1 ELSE down
    IN  <<hundredths \div 100, hundredths % 100>>

\* the text of a size n that is below 1024 ** 3
SizeText(n) ==
    IF n < 1024 THEN <<n, "B">>
    ELSE IF n < Unit(2) THEN TwoDecimals(n, 1) \o <<"KB">>
    ELSE TwoDecimals(n, 2) \o <<"MB">>

BucketSizeReturned ==
    HasReturned /\ tool = "get_bucket_size" /\ "error" \notin DOMAIN result.env

\* C18: _human_readable_size picks the unit by binary thresholds: below 1024
\* the integer and "B", below 1024^2 KB, below 1024^3 MB, below 1024^4 GB,
\* otherwise TB, each with two decimals of the size divided by the unit; 0
\* gives "0 B", 1023 "1023 B", 1536 "1.50 KB" and 1073741824 "1.00 GB".
SizeTextByBinaryUnits ==
    BucketSizeReturned =>
        LET size == result.env.total_size_bytes
            text == result.env.total_size_human
        IN  /\ text[Len(text)] = IF Len(size) <= 1 THEN "B" ELSE UnitName(Min(Len(size) - 1, 4))
            /\ Len(text) = IF Len(size) <= 1 THEN 2 ELSE 3
            /\ Len(size) >= 2 => text[2] \in 0..99
            /\ Len(size) <= 3 => text = SizeText(Value(size))
            /\ size = Bytes(0) => text = <<0, "B">>
            /\ size = Bytes(1023) => text = <<1023, "B">>
            /\ size = Bytes(1536) => text = <<1, 50, "KB">>
            /\ size = Bytes(1073741824) => text = <<1, 0, "GB">>
            /\ size = <<1023, 1023, 1023, 1023>> => text = <<1024, 0, "GB">>
            /\ size = <<0, 0, 0, 0, 1>> => text = <<1, 0, "TB">>
            /\ size = <<0, 0, 0, 0, 1, 1>> => text = <<1025, 0, "TB">>

\* a bucket of exactly 1024 bytes: the first size that is no longer in bytes
OneKilobyte ==
    /\ BucketSizeReturned
    /\ result.env.total_size_bytes = Bytes(1024)
    /\ result.env.total_size_human = <<1, 0, "KB">>

-----------------------------------------------------------------------------
(* The order of the functions listed *)

FunctionsReturned ==
    HasReturned /\ tool = "list_lambda_functions" /\ "error" \notin DOMAIN result.env

\* the runtime of a listed function is deprecated
OnDeprecatedRuntime(func) == func.runtime \in DOMAIN DEPRECATED_RUNTIMES

\* C19: in the `functions` list of list_lambda_functions every function whose
\* runtime is deprecated comes before every function whose runtime is not,
\* and within each of the two groups the functions are ordered by name.
DeprecatedFirstThenByName ==
    FunctionsReturned =>
        LET functions == result.env.functions IN
        \A i \in 1..Len(functions) : \A j \in (i + 1)..Len(functions) :
            /\ OnDeprecatedRuntime(functions[j]) => OnDeprecatedRuntime(functions[i])
            /\ OnDeprecatedRuntime(functions[i]) = OnDeprecatedRuntime(functions[j]) =>
                  ~StrLess(functions[j].name, functions[i].name)

-----------------------------------------------------------------------------
(* The classification of runtimes *)

\* status is the class of runtime: DEPRECATED exactly for the keys of
\* DEPRECATED_RUNTIMES, APPROACHING_EOL exactly for those of
\* APPROACHING_EOL_RUNTIMES, none ("None") for every other text
Classifies(status, runtime) ==
    /\ status \in {"DEPRECATED", "APPROACHING_EOL", "None"}
    /\ status = "DEPRECATED" <=> runtime \in DOMAIN DEPRECATED_RUNTIMES
    /\ status = "APPROACHING_EOL" <=> runtime \in DOMAIN APPROACHING_EOL_RUNTIMES

\* the functions the provider listed, and the one of a given name
FunctionsListed == Flatten(world.pages)

ListedAs(name) == CHOOSE func \in Range(FunctionsListed) : func.FunctionName = name

\* the names of the listed functions whose runtime is a key of table, in the
\* order listed
NamesOn(table) ==
    LET on == SelectSeq(FunctionsListed, LAMBDA func :
                  "Runtime" \in DOMAIN func /\ func.Runtime \in DOMAIN table)
    IN  [i \in 1..Len(on) |-> on[i].FunctionName]

NamesOf(entries) == [i \in 1..Len(entries) |-> entries[i].name]

DeprecatedReturned ==
    HasReturned /\ tool = "find_deprecated_runtimes" /\ "error" \notin DOMAIN result.env

-----------------------------------------------------------------------------
(* The size of a describe call *)

\* the tools of ECS that follow a listing with a detail fetch
DetailTools == {"list_ecs_clusters", "list_ecs_services", "list_ecs_tasks"}

\* the describe operations of these tools
DetailOps == {"describe_clusters", "describe_services", "describe_tasks"}

\* the most identifiers one describe call may carry: the batch size of the
\* tool, and for list_ecs_clusters, which names none, the largest batch size
\* of the module
ChunkLimit ==
    [list_ecs_clusters |-> TaskBatch,
     list_ecs_services |-> ServiceBatch,
     list_ecs_tasks |-> TaskBatch]

\* C21: in list_ecs_clusters, list_ecs_services and list_ecs_tasks no
\* describe call carries more identifiers than a constant that is the same
\* for every length of listing: a listing longer than the constant is
\* described in more than one call.
DescribeCallIsBounded ==
    (pc = "returned" /\ tool \in DetailTools) =>
        \A c \in Range(calls) :
            c.op \in DetailOps => Len(c.arg) <= ChunkLimit[tool]

-----------------------------------------------------------------------------
(* The window of list_fargate_retirements *)

\* the event has a start time from now to now + days
StartsAhead(event, days) ==
    /\ "startTime" \in DOMAIN event
    /\ Now <= event.startTime
    /\ event.startTime <= Now + days * HoursPerDay

\* the retirements of the events among `events` that start in the window
RetirementsAhead(events, days) ==
    LET ahead == SelectSeq(events, LAMBDA e : StartsAhead(e, days))
    IN  Flatten([i \in 1..Len(ahead) |-> RetirementsOf(ahead[i])])

RetirementsReturned ==
    /\ HasReturned
    /\ tool = "list_fargate_retirements"
    /\ "error" \notin DOMAIN result.env

\* C22: the retirements list_fargate_retirements(days) reports are those of
\* the events whose start time lies from now to now + days, and
\* describe_affected_entities is asked about no other event: an event
\* starting later, one without a start time and one that started before now
\* contribute nothing.
RetirementsLieAhead ==
    RetirementsReturned =>
        /\ result.env.retirements = RetirementsAhead(Flatten(world.pages), world.days)
        /\ \A c \in Range(calls) :
              c.op = "describe_affected_entities" =>
                  \E e \in Range(Flatten(world.pages)) :
                      e.arn = c.arg /\ StartsAhead(e, world.days)

-----------------------------------------------------------------------------
(* Two threads in get_client *)

\* the calls of boto3.client for a service that returned a handle
HandlesBuilt(service) ==
    {i \in 1..Len(built) : built[i].service = service /\ ~built[i].raised}

\* C23: when two invocations running side by side call get_client for a
\* service that is not cached, the handle is constructed at most once, the
\* callers receive the same handle, and no entry of the cache is replaced
\* by a second handle.
OneHandleForConcurrentCallers ==
    /\ \A service \in RaceServices : Cardinality(HandlesBuilt(service)) <= 1
    /\ \A t, u \in Threads :
          (/\ frames[t].at = "done"
           /\ frames[u].at = "done"
           /\ frames[t].service_name = frames[u].service_name) =>
              frames[t].got = frames[u].got
    /\ \A t \in Threads :
          (frames[t].at = "store" /\ frames[t].service_name \in DOMAIN clients) =>
              clients[frames[t].service_name] = frames[t].handle

-----------------------------------------------------------------------------
(* The failures of a truncated search *)

\* C24: every failure of a bucket's listing during a find_object search is
\* an entry {bucket, error} of buckets_with_errors in the result the search
\* returns, whether the search ran over all buckets or stopped at the cap
\* of 50 matches.
EveryBucketFailureReported ==
    FindReturned =>
        \A failure \in Range(FailuresOf(FetchesIssued)) :
            /\ "buckets_with_errors" \in DOMAIN result.env
            /\ failure \in Range(result.env.buckets_with_errors)

-----------------------------------------------------------------------------
(* Blocked public access and the issues of a bucket *)

PublicAccessReturned ==
    /\ HasReturned
    /\ tool = "check_bucket_public_access"
    /\ "error" \notin DOMAIN result.env

\* the public access block of the bucket was read and has all four settings on
FullyBlocked(bucket) ==
    /\ bucket.config.ok
    /\ \A k \in Range(PublicAccessSettings) :
          Get(bucket.config.data.PublicAccessBlockConfiguration, k, FALSE)

\* C25: in every record of check_bucket_public_access public_access_blocked
\* is true exactly when issues is empty, that is only for a bucket whose
\* public access block was read and has all four settings on, and
\* potentially_public_count is the number of records with issues.
BlockedIffNoIssues ==
    PublicAccessReturned =>
        /\ \A r \in Range(result.env.buckets) :
              /\ r.public_access_blocked = (r.issues = <<>>)
              /\ r.public_access_blocked =>
                    \E b \in Range(world.buckets) : b.Name = r.bucket /\ FullyBlocked(b)
        /\ result.env.potentially_public_count =
              Len(SelectSeq(result.env.buckets, LAMBDA r : r.issues # <<>>))

====
